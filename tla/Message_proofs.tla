--------------------------- MODULE Message_proofs ---------------------------
(***************************************************************************)
(* Proofs about module Message: what the fields' codecs do for a field,    *)
(* the serializer made of them does for the struct.                        *)
(***************************************************************************)
EXTENDS Message, Induction

-----------------------------------------------------------------------------
(* Facts about the constants.                                              *)

LEMMA FieldsAreFields ==
  ASSUME NEW n \in DOMAIN Messages
  PROVE  /\ Messages[n] \in Seq({Messages[n][i] : i \in DOMAIN Messages[n]})
         /\ Len(Messages[n]) \in Nat /\ DOMAIN Messages[n] = 1..Len(Messages[n])
         /\ IsMessage(Messages[n])
<1>1. Messages[n] \in Seq({Messages[n][i] : i \in DOMAIN Messages[n]}) /\ IsMessage(Messages[n])
  BY MessagesAssumption
<1>2. Len(Messages[n]) \in Nat /\ DOMAIN Messages[n] = 1..Len(Messages[n])
  BY <1>1
<1> QED
  BY <1>1, <1>2

\* The name of a stored field is a member, and its type is found by it.
LEMMA MemberOf ==
  ASSUME NEW n \in DOMAIN Messages, NEW i \in DOMAIN Messages[n], Stored(Messages[n][i].type)
  PROVE  /\ Messages[n][i].name \in Members(Messages[n])
         /\ Fresh(Messages[n])[Messages[n][i].name] = Initial(Messages[n][i].type)
<1> DEFINE m == Messages[n]
<1>1. m[i].name \in Members(m)
  BY DEF Members
<1>2. \A j \in DOMAIN m : m[j].name = m[i].name => j = i
  BY FieldsAreFields DEF IsMessage
<1>3. TypeOf(m, m[i].name) = m[i].type
  <2> DEFINE c == CHOOSE j \in DOMAIN m : m[j].name = m[i].name
  <2>1. c \in DOMAIN m /\ m[c].name = m[i].name
    OBVIOUS
  <2>2. c = i
    BY <2>1, <1>2
  <2> QED
    BY <2>2 DEF TypeOf
<1>4. Fresh(m)[m[i].name] = Initial(TypeOf(m, m[i].name))
  BY <1>1 DEF Fresh
<1> QED
  BY <1>1, <1>3, <1>4

LEMMA PieceType ==
  ASSUME NEW n \in DOMAIN Messages, NEW s \in Values[n], NEW i \in DOMAIN Messages[n]
  PROVE  /\ Put(Messages[n][i].type, Held(Messages[n], i, s)) \in Seq(Octets)
         /\ Len(Put(Messages[n][i].type, Held(Messages[n], i, s))) \in Nat
<1>1. Put(Messages[n][i].type, Held(Messages[n], i, s)) \in Seq(Octets)
  BY BytesAssumption
<1> QED
  BY <1>1

\* What is written is one of the values.
Genuine == fate # "foreign" => value \in Values[msg]

-----------------------------------------------------------------------------
(* Types.                                                                  *)

LEMMA InitTypes == Init => TypeOK
<1> SUFFICES ASSUME Init PROVE TypeOK
  OBVIOUS
<1>1. msg \in DOMAIN Messages
  BY DEF Init
<1>2. Len(Fields) \in Nat
  BY <1>1, FieldsAreFields DEF Fields
<1>3. frame \in Seq(Octets)
  <2>1. CASE frame = <<>>
    BY <2>1
  <2>2. CASE frame \in Foreign
    BY <2>2, BytesAssumption
  <2> QED
    BY <2>1, <2>2 DEF Init
<1>4. IsStruct(Fields, out)
  BY DEF Init, Fresh, IsStruct
<1> QED
  BY <1>1, <1>2, <1>3, <1>4 DEF Init, TypeOK

LEMMA StepTypes ==
  ASSUME TypeOK, Genuine, fate = "unsent" <=> phase \in {"write", "sent"}, [Next]_vars
  PROVE  TypeOK'
<1> USE DEF TypeOK
<1>0. /\ Len(Fields) \in Nat /\ DOMAIN Fields = 1..Len(Fields)
      /\ msg' = msg /\ Fields' = Fields
  <2>1. Len(Fields) \in Nat /\ DOMAIN Fields = 1..Len(Fields)
    BY FieldsAreFields DEF Fields
  <2>2. msg' = msg
    BY DEF Next, vars, WriteField, Written, Arrive, Cut, Deliver, SkipField, ReadField, ReadFails, ReadEnds, Done
  <2> QED
    BY <2>1, <2>2 DEF Fields
<1>1. CASE WriteField
  <2> DEFINE b == Put(Fields[at].type, Held(Fields, at, value))
  <2>1. b \in Seq(Octets)
    <3>1. fate # "foreign" /\ at \in DOMAIN Messages[msg]
      BY <1>0, <1>1 DEF WriteField, Fields
    <3>2. value \in Values[msg] /\ msg \in DOMAIN Messages
      BY <3>1 DEF Genuine
    <3> QED
      BY <3>1, <3>2, PieceType DEF Fields
  <2>2. wire' \in Seq(Octets)
    BY <2>1, <1>1 DEF WriteField
  <2>3. Len(wire') \in Nat
    BY <2>2
  <2>4. ends' \in Seq(Nat)
    BY <2>3, <1>1 DEF WriteField
  <2>5. open' \in BOOLEAN
    BY <1>1 DEF WriteField, Enters, Present
  <2>6. at' \in 1 .. (Len(Fields) + 1)
    BY <1>0, <1>1 DEF WriteField
  <2> QED
    BY <1>0, <1>1, <2>2, <2>4, <2>5, <2>6 DEF WriteField
<1>2. CASE Written
  BY <1>0, <1>2 DEF Written
<1>3. CASE Arrive
  <2>1. frame' \in Seq(Octets)
    BY <1>3, BytesAssumption DEF Arrive
  <2> QED
    BY <1>0, <1>3, <2>1 DEF Arrive, Deliver
<1>4. CASE Cut
  <2>1. PICK n \in 0 .. (Len(wire) - 1) : frame' = SubSeq(wire, 1, n)
    BY <1>4 DEF Cut
  <2>2. frame' \in Seq(Octets)
    BY <2>1
  <2> QED
    BY <1>0, <1>4, <2>2 DEF Cut, Deliver
<1>5. CASE SkipField
  <2>1. UNCHANGED <<msg, value, wire, ends, frame, fate, phase, pos, out, status>>
    BY <1>5 DEF SkipField
  <2>2. open' = FALSE /\ at' = at + 1 /\ at <= Len(Fields)
    BY <1>5, Zenon DEF SkipField
  <2>3. at' \in 1 .. (Len(Fields) + 1)
    BY <1>0, <2>2
  <2> QED
    BY <1>0, <2>1, <2>2, <2>3
<1>6. CASE ReadField
  <2>1. IsStruct(Fields, out')
    BY <1>6 DEF ReadField, IsStruct
  <2> QED
    BY <1>0, <1>6, <2>1 DEF ReadField
<1>7. CASE ReadFails
  BY <1>0, <1>7 DEF ReadFails
<1>8. CASE ReadEnds
  BY <1>0, <1>8 DEF ReadEnds
<1>9. CASE Done \/ UNCHANGED vars
  BY <1>0, <1>9 DEF Done, vars
<1> QED
  BY <1>1, <1>2, <1>3, <1>4, <1>5, <1>6, <1>7, <1>8, <1>9 DEF Next

-----------------------------------------------------------------------------
(* The wire.                                                               *)

\* A block's later field enters as its guard says, since it shares the guard
\* with the field before.
LEMMA BlockSharesGuard ==
  ASSUME NEW n \in DOMAIN Messages, NEW i \in DOMAIN Messages[n], NEW s, NEW entered,
         i > 1 => entered = Present(Messages[n], i - 1, s)
  PROVE  Enters(Messages[n], i, s, entered) = Present(Messages[n], i, s)
<1> DEFINE m == Messages[n]
<1>1. CASE GoesOn(m, i)
  <2>1. i > 1 /\ m[i].block # 0 /\ m[i].block = m[i - 1].block
    BY <1>1 DEF GoesOn
  <2>2. m[i].when = m[i - 1].when
    BY <2>1, FieldsAreFields DEF IsMessage
  <2> QED
    BY <1>1, <2>1, <2>2 DEF Enters, Present
<1>2. CASE ~ GoesOn(m, i)
  BY <1>2 DEF Enters
<1> QED
  BY <1>1, <1>2

\* What the writer has done stays done.
LEMMA LaidStays ==
  ASSUME UNCHANGED <<msg, value, wire, ends>>
  PROVE  /\ Fields' = Fields
         /\ \A i : Before(i)' = Before(i) /\ Piece(i)' = Piece(i)
         /\ \A i : Laid(i) => Laid(i)'
<1>1. Fields' = Fields
  BY DEF Fields
<1>2. \A i : Before(i)' = Before(i) /\ Piece(i)' = Piece(i)
  BY <1>1 DEF Before, Piece, BytesAt
<1>3. ASSUME NEW n, Laid(n) PROVE Laid(n)'
  BY <1>2, <1>3 DEF Laid
<1> QED
  BY <1>1, <1>2, <1>3

WireInv == TypeOK /\ Genuine /\ WriterInv /\ ArrivalInv

LEMMA InitWire == Init => WireInv
<1> SUFFICES ASSUME Init PROVE WireInv
  OBVIOUS
<1>1. TypeOK
  BY InitTypes
<1>2. Genuine
  BY DEF Init, Genuine
<1>3. WriterInv
  BY DEF Init, WriterInv, Before, Laid
<1>4. ArrivalInv
  BY DEF Init, ArrivalInv
<1> QED
  BY <1>1, <1>2, <1>3, <1>4 DEF WireInv

\* A field written lies behind the ones before it.
LEMMA WriteFieldLays ==
  ASSUME WireInv, WriteField, NEW n, n = at
  PROVE  WriterInv'
<1> DEFINE b == Piece(n)
<1>1. /\ Len(Fields) \in Nat /\ DOMAIN Fields = 1..Len(Fields)
      /\ n \in 1..Len(Fields) /\ msg \in DOMAIN Messages
  BY FieldsAreFields DEF WireInv, TypeOK, WriteField, Fields
<1>2. /\ phase = "write" /\ fate = "unsent" /\ value \in Values[msg]
      /\ wire \in Seq(Octets) /\ ends \in Seq(Nat)
      /\ Len(ends) = n - 1 /\ Len(wire) = Before(n) /\ Laid(n - 1)
      /\ n > 1 => open = Present(Fields, n - 1, value)
      /\ out = Fresh(Fields) /\ pos = 0
  BY DEF WireInv, TypeOK, WriterInv, Genuine, WriteField
<1>3. open' = Present(Fields, n, value)
  <2>1. open' = Enters(Fields, n, value, open)
    BY Zenon DEF WriteField
  <2> QED
    BY <1>1, <1>2, <2>1, BlockSharesGuard DEF Fields
<1>4. b \in Seq(Octets) /\ Len(b) \in Nat
  BY <1>1, <1>2, PieceType DEF Piece, BytesAt, Fields
<1>5. wire' = wire \o b
  BY <1>2, <1>3 DEF WriteField, Piece, BytesAt
<1>6. Len(wire') = Len(wire) + Len(b) /\ Len(wire) \in Nat
  <2>1. wire \in Seq(Octets)
    BY <1>2
  <2> QED
    BY <1>4, <1>5, <2>1
<1>7. /\ ends' = Append(ends, Len(wire'))
      /\ UNCHANGED <<msg, value, frame, fate, phase, pos, out, status>> /\ at' = n + 1
  BY Zenon DEF WriteField
<1>8. /\ Len(ends') = n /\ ends'[n] = Before(n) + Len(b) /\ ends'[n] = Len(wire')
      /\ \A j \in 1..(n - 1) : ends'[j] = ends[j]
  BY <1>1, <1>2, <1>6, <1>7
<1>9. /\ Fields' = Fields
      /\ \A j \in 1..n : Before(j)' = Before(j) /\ Piece(j)' = Piece(j)
  BY <1>1, <1>7, <1>8 DEF Fields, Piece, BytesAt, Before
<1>10. Before(at)' = Len(wire')
  BY <1>1, <1>7, <1>8 DEF Before
<1>11. Laid(n)'
  <2> SUFFICES ASSUME NEW j \in 1..n
               PROVE  /\ ends'[j] = Before(j)' + Len(Piece(j)') /\ ends'[j] <= Len(wire')
                      /\ \A k \in 1..Len(Piece(j)') : wire'[Before(j)' + k] = Piece(j)'[k]
    BY <1>1 DEF Laid
  <2>1. CASE j = n
    <3>1. ASSUME NEW k \in 1..Len(b) PROVE wire'[Len(wire) + k] = b[k]
      BY <1>2, <1>4, <1>5, <1>6
    <3> QED
      BY <2>1, <1>2, <1>6, <1>8, <1>9, <3>1
  <2>2. CASE j # n
    <3>1. j \in 1..(n - 1) /\ j \in 1..Len(ends)
      BY <1>1, <1>2, <2>2
    <3>2. /\ ends[j] = Before(j) + Len(Piece(j)) /\ ends[j] <= Len(wire)
          /\ \A k \in 1..Len(Piece(j)) : wire[Before(j) + k] = Piece(j)[k]
      BY <1>2, <3>1 DEF Laid
    <3>3. ends[j] \in Nat /\ Before(j) \in Nat
      BY <1>1, <1>2, <3>1 DEF Before
    <3>4. Piece(j) \in Seq(Octets) /\ Len(Piece(j)) \in Nat
      BY <1>1, <1>2, <3>1, PieceType DEF Piece, BytesAt, Fields
    <3>5. ASSUME NEW k \in 1..Len(Piece(j)) PROVE wire'[Before(j) + k] = Piece(j)[k]
      <4>1. Before(j) + k \in 1..Len(wire)
        BY <1>6, <3>2, <3>3, <3>4
      <4>2. wire'[Before(j) + k] = wire[Before(j) + k]
        BY <1>2, <1>4, <1>5, <4>1
      <4> QED
        BY <3>2, <4>2
    <3>6. ends[j] <= Len(wire')
      BY <1>4, <1>6, <3>2, <3>3
    <3> QED
      BY <1>8, <1>9, <3>1, <3>2, <3>5, <3>6
  <2> QED
    BY <2>1, <2>2
<1>12. fate' = "unsent" /\ phase' = "write" /\ out' = Fresh(Fields)' /\ pos' = 0
  BY <1>2, <1>7, <1>9 DEF Fresh
<1>13. Laid(at - 1)' /\ Len(ends') = at' - 1
  BY <1>1, <1>7, <1>8, <1>11
<1>14. at' > 1 => open' = Present(Fields, at - 1, value)'
  BY <1>1, <1>3, <1>7, <1>9
<1> QED
  BY <1>10, <1>12, <1>13, <1>14 DEF WriterInv

LEMMA StepWire ==
  ASSUME WireInv, [Next]_vars
  PROVE  WireInv'
<1>1. TypeOK /\ Genuine /\ WriterInv /\ ArrivalInv
  BY DEF WireInv
<1>2. TypeOK'
  BY <1>1, StepTypes DEF WriterInv
<1>3. Genuine'
  <2>1. msg' = msg /\ value' = value /\ (fate' # "foreign" => fate # "foreign")
    BY <1>1 DEF Next, vars, WriterInv, WriteField, Written, Arrive, Cut, Deliver,
                SkipField, ReadField, ReadFails, ReadEnds, Done
  <2> QED
    BY <1>1, <2>1 DEF Genuine
<1>4. CASE WriteField
  <2>1. WriterInv'
    BY <1>4, WriteFieldLays
  <2>2. ArrivalInv'
    BY <1>1, <1>4 DEF WriterInv, ArrivalInv, WriteField
  <2> QED
    BY <1>2, <1>3, <2>1, <2>2 DEF WireInv
<1>5. ASSUME UNCHANGED <<msg, value, wire, ends>>, phase' # "write",
             phase # "write" \/ at = Len(Fields) + 1,
             fate' = "unsent" <=> phase' = "sent",
             fate' = "unsent" => fate = "unsent" /\ UNCHANGED <<out, pos>>,
             fate' # "foreign" => fate # "foreign"
      PROVE  WriterInv'
  <2>1. fate' # "foreign" => Len(ends) = Len(Fields) /\ Len(wire) = Before(Len(Fields) + 1) /\ Laid(Len(Fields))
    <3>1. Len(Fields) \in Nat
      BY <1>1, FieldsAreFields DEF TypeOK, Fields
    <3>2. CASE phase # "write"
      BY <1>1, <1>5, <3>2 DEF WriterInv
    <3>3. CASE phase = "write"
      <4>1. at = Len(Fields) + 1 /\ at - 1 = Len(Fields)
        BY <1>5, <3>1, <3>3
      <4>2. Len(ends) = at - 1 /\ Len(wire) = Before(at) /\ Laid(at - 1)
        BY <1>1, <3>3 DEF WriterInv
      <4> QED
        BY <4>1, <4>2
    <3> QED
      BY <3>2, <3>3
  <2>2. fate' # "foreign" => Len(ends') = Len(Fields') /\ Len(wire') = Before(Len(Fields) + 1)' /\ Laid(Len(Fields))'
    BY <1>5, <2>1, LaidStays
  <2>3. fate' = "unsent" => out' = Fresh(Fields)' /\ pos' = 0
    BY <1>1, <1>5, LaidStays DEF WriterInv, Fresh
  <2> QED
    BY <1>5, <2>2, <2>3 DEF WriterInv
<1>6. CASE Written
  <2>1. at = Len(Fields) + 1
    BY <1>1, <1>6, FieldsAreFields DEF TypeOK, Written, Fields
  <2>2. WriterInv'
    BY <1>1, <1>5, <1>6, <2>1 DEF Written, WriterInv
  <2>3. ArrivalInv'
    BY <1>1, <1>6 DEF ArrivalInv, Written
  <2> QED
    BY <1>2, <1>3, <2>2, <2>3 DEF WireInv
<1>7. CASE Arrive
  <2>1. PICK after \in Behind : frame' = wire \o after
    BY <1>7 DEF Arrive
  <2>2. after \in Seq(Octets) /\ wire \in Seq(Octets)
    BY <1>1, BytesAssumption DEF TypeOK
  <2>3. fate' = "whole" /\ phase' = "read" /\ UNCHANGED <<msg, value, wire, ends, pos, out>>
    BY <1>7 DEF Arrive, Deliver
  <2>4. WriterInv'
    BY <1>1, <1>5, <1>7, <2>3 DEF WriterInv, Arrive, Deliver
  <2>5. Len(wire') <= Len(frame') /\ \A k \in 1..Len(wire') : frame'[k] = wire'[k]
    BY <2>1, <2>2, <2>3
  <2>6. ArrivalInv'
    BY <2>3, <2>5 DEF ArrivalInv
  <2> QED
    BY <1>2, <1>3, <2>4, <2>6 DEF WireInv
<1>8. CASE Cut
  <2>1. PICK n \in 0 .. (Len(wire) - 1) : frame' = SubSeq(wire, 1, n)
    BY <1>8 DEF Cut
  <2>2. wire \in Seq(Octets) /\ Len(wire) \in Nat
    BY <1>1 DEF TypeOK
  <2>3. fate' = "cut" /\ phase' = "read" /\ UNCHANGED <<msg, value, wire, ends, pos, out>>
    BY <1>8 DEF Cut, Deliver
  <2>4. WriterInv'
    BY <1>1, <1>5, <1>8, <2>3 DEF WriterInv, Cut, Deliver
  <2>5. Len(frame') = n /\ \A k \in 1..n : frame'[k] = wire[k]
    BY <2>1, <2>2
  <2>6. Len(frame') < Len(wire') /\ \A k \in 1..Len(wire') : k <= Len(frame') => frame'[k] = wire'[k]
    BY <2>2, <2>3, <2>5
  <2>7. ArrivalInv'
    BY <2>3, <2>6 DEF ArrivalInv
  <2> QED
    BY <1>2, <1>3, <2>4, <2>7 DEF WireInv
<1>9. CASE SkipField \/ ReadField \/ ReadFails \/ ReadEnds
  <2>1. /\ UNCHANGED <<msg, value, wire, ends, frame, fate>>
        /\ phase = "read" /\ phase' \in {"read", "done"}
    BY <1>9 DEF SkipField, ReadField, ReadFails, ReadEnds
  <2>2. WriterInv'
    BY <1>1, <1>5, <2>1 DEF WriterInv
  <2>3. ArrivalInv'
    BY <1>1, <2>1 DEF ArrivalInv
  <2> QED
    BY <1>2, <1>3, <2>2, <2>3 DEF WireInv
<1>10. CASE Done \/ UNCHANGED vars
  <2>1. UNCHANGED vars
    BY <1>10 DEF Done
  <2>2. ArrivalInv'
    BY <1>1, <2>1 DEF ArrivalInv, vars
  <2>3. /\ \A i : Before(i)' = Before(i) /\ (Laid(i) => Laid(i)')
        /\ Fields' = Fields
    BY <2>1, LaidStays DEF vars
  <2>4. WriterInv'
    <3>1. /\ (fate = "unsent" <=> phase \in {"write", "sent"})'
          /\ (fate = "unsent" => out = Fresh(Fields) /\ pos = 0)'
      BY <1>1, <2>1, <2>3 DEF WriterInv, vars, Fresh
    <3>2. (phase = "write" =>
             /\ Len(ends) = at - 1 /\ Len(wire) = Before(at) /\ Laid(at - 1)
             /\ at > 1 => open = Present(Fields, at - 1, value))'
      BY <1>1, <2>1, <2>3 DEF WriterInv, vars, Laid, Before
    <3>3. (phase # "write" /\ fate # "foreign" =>
             Len(ends) = Len(Fields) /\ Len(wire) = Before(Len(Fields) + 1) /\ Laid(Len(Fields)))'
      BY <1>1, <2>1, <2>3 DEF WriterInv, vars
    <3> QED
      BY <3>1, <3>2, <3>3 DEF WriterInv
  <2> QED
    BY <1>2, <1>3, <2>2, <2>4 DEF WireInv
<1> QED
  BY <1>4, <1>6, <1>7, <1>8, <1>9, <1>10 DEF Next

LEMMA WireInvariant == Spec => []WireInv
<1> QED
  BY InitWire, StepWire, PTL DEF Spec

\* The types are right in every reachable state.
THEOREM TypeCorrect == Spec => []TypeOK
<1>1. WireInv => TypeOK
  BY DEF WireInv
<1> QED
  BY <1>1, WireInvariant, PTL

-----------------------------------------------------------------------------
(* The reader.                                                             *)

ReadInv == ReaderInv /\ InStep /\ RoundTrip /\ CutRefused

LEMMA InitRead == Init => ReadInv
BY DEF Init, ReadInv, ReaderInv, InStep, RoundTrip, CutRefused

\* The reader of a struct that the wire can carry, before its n-th field.
Behindhand(n) ==
  /\ WireInv /\ ReadInv
  /\ phase = "read" /\ fate \in {"whole", "cut"} /\ Carried(Fields, value)
  /\ n = at

\* What the invariant says of it.
LEMMA WhereReaderStands ==
  ASSUME NEW n, Behindhand(n)
  PROVE  /\ msg \in DOMAIN Messages /\ Len(Fields) \in Nat /\ DOMAIN Fields = 1..Len(Fields)
         /\ n \in 1..(Len(Fields) + 1) /\ value \in Values[msg]
         /\ frame \in Seq(Octets) /\ wire \in Seq(Octets)
         /\ pos \in Nat /\ pos = Before(n) /\ pos <= Len(frame)
         /\ Agree(Fields, n, value, out)
         /\ Len(wire) = Before(Len(Fields) + 1)
<1>1. /\ msg \in DOMAIN Messages /\ n \in 1..(Len(Fields) + 1)
      /\ frame \in Seq(Octets) /\ wire \in Seq(Octets) /\ ends \in Seq(Nat)
  BY DEF Behindhand, WireInv, TypeOK
<1>2. Len(Fields) \in Nat /\ DOMAIN Fields = 1..Len(Fields)
  BY <1>1, FieldsAreFields DEF Fields
<1>3. value \in Values[msg]
  BY DEF Behindhand, WireInv, Genuine
<1>4. pos = Before(n) /\ pos <= Len(frame)
  BY DEF Behindhand, ReadInv, InStep, ReaderInv
<1>5. Len(ends) = Len(Fields) /\ Len(wire) = Before(Len(Fields) + 1)
  BY DEF Behindhand, WireInv, WriterInv
<1>6. pos \in Nat
  BY <1>1, <1>2, <1>4, <1>5 DEF Before
<1>7. Agree(Fields, n, value, out)
  BY DEF Behindhand, ReadInv, InStep, Agree
<1> QED
  BY <1>1, <1>2, <1>3, <1>4, <1>5, <1>6, <1>7

\* It decides as the writer did whether the field is there.
LEMMA ReaderDecides ==
  ASSUME GuardsLookBack, NEW n, Behindhand(n), n <= Len(Fields)
  PROVE  Enters(Fields, n, out, open) = Present(Fields, n, value)
<1>1. /\ msg \in DOMAIN Messages /\ DOMAIN Fields = 1..Len(Fields) /\ Len(Fields) \in Nat
      /\ n \in 1..Len(Fields) /\ Agree(Fields, n, value, out)
  BY WhereReaderStands
<1>2. Present(Fields, n, value) = Present(Fields, n, out)
  BY <1>1 DEF GuardsLookBack, Fields
<1>3. n > 1 => open = Present(Fields, n - 1, out)
  <2>1. SUFFICES ASSUME n > 1 PROVE open = Present(Fields, n - 1, out)
    OBVIOUS
  <2>2. open = Present(Fields, n - 1, value)
    BY <2>1 DEF Behindhand, ReadInv, InStep
  <2>3. n - 1 \in DOMAIN Fields /\ Agree(Fields, n - 1, value, out)
    BY <1>1, <2>1 DEF Agree
  <2> QED
    BY <1>1, <2>2, <2>3 DEF GuardsLookBack, Fields
<1> QED
  BY <1>1, <1>2, <1>3, BlockSharesGuard DEF Fields

\* Where the field ends, and that the frame holds its bytes as far as it goes.
LEMMA FieldAhead ==
  ASSUME NEW n, Behindhand(n), n <= Len(Fields)
  PROVE  /\ Piece(n) \in Seq(Octets) /\ Len(Piece(n)) \in Nat
         /\ Before(n + 1) = pos + Len(Piece(n)) /\ Before(n + 1) <= Len(wire)
         /\ \A k \in 1..Len(Piece(n)) : pos + k <= Len(frame) => frame[pos + k] = Piece(n)[k]
<1>1. /\ msg \in DOMAIN Messages /\ DOMAIN Fields = 1..Len(Fields) /\ Len(Fields) \in Nat
      /\ n \in 1..Len(Fields) /\ value \in Values[msg] /\ wire \in Seq(Octets)
      /\ pos \in Nat /\ pos = Before(n)
  BY WhereReaderStands
<1>2. Piece(n) \in Seq(Octets) /\ Len(Piece(n)) \in Nat
  BY <1>1, PieceType DEF Piece, BytesAt, Fields
<1>3. Laid(Len(Fields))
  BY DEF Behindhand, WireInv, WriterInv
<1>4. /\ ends[n] = Before(n) + Len(Piece(n)) /\ ends[n] <= Len(wire)
      /\ \A k \in 1..Len(Piece(n)) : wire[Before(n) + k] = Piece(n)[k]
  BY <1>1, <1>3 DEF Laid
<1>5. Before(n + 1) = ends[n]
  BY <1>1 DEF Before
<1>6. \A k \in 1..Len(wire) : k <= Len(frame) => frame[k] = wire[k]
  BY DEF Behindhand, WireInv, ArrivalInv
<1>7. ASSUME NEW k \in 1..Len(Piece(n)), pos + k <= Len(frame) PROVE frame[pos + k] = Piece(n)[k]
  <2>1. pos + k \in 1..Len(wire)
    BY <1>1, <1>2, <1>4, <1>7
  <2> QED
    BY <1>1, <1>4, <1>6, <1>7, <2>1
<1> QED
  BY <1>1, <1>2, <1>4, <1>5, <1>7

\* What it makes of a field that is there.
LEMMA ReaderTakes ==
  ASSUME CodecsMirror, NEW n, Behindhand(n), n <= Len(Fields), Present(Fields, n, value)
  PROVE  IF Before(n + 1) <= Len(frame)
         THEN /\ Taken.status = "ok" /\ Taken.pos = Before(n + 1)
              /\ Stored(Fields[n].type) => Taken.value = value[Fields[n].name]
         ELSE Taken.status = "message_size" /\ fate = "cut"
<1> DEFINE b == Put(Fields[n].type, Held(Fields, n, value))
<1>1. /\ msg \in DOMAIN Messages /\ DOMAIN Fields = 1..Len(Fields) /\ Len(Fields) \in Nat
      /\ n \in 1..Len(Fields) /\ value \in Values[msg] /\ wire \in Seq(Octets)
      /\ frame \in Seq(Octets) /\ pos \in Nat /\ pos <= Len(frame) /\ Agree(Fields, n, value, out)
  BY WhereReaderStands
<1>2. b = Piece(n)
  BY DEF Piece, BytesAt
<1>3. /\ Len(b) \in Nat /\ Before(n + 1) = pos + Len(b) /\ Before(n + 1) <= Len(wire)
      /\ \A k \in 1..Len(b) : pos + k <= Len(frame) => frame[pos + k] = b[k]
  BY <1>2, FieldAhead
<1>4. Carries(Fields[n].type, Held(Fields, n, value), value)
  BY <1>1 DEF Behindhand, Carried, CarriedAt
<1>5. Stored(Fields[n].type) => out[Fields[n].name] = Initial(Fields[n].type)
  BY <1>1 DEF Behindhand, ReadInv, InStep
<1>6. Taken = Reading(Fields, n, out, frame, pos)
  BY DEF Taken, Behindhand
<1>7. IF pos + Len(b) <= Len(frame)
      THEN /\ Taken.status = "ok" /\ Taken.pos = pos + Len(b)
           /\ Stored(Fields[n].type) => Taken.value = value[Fields[n].name]
      ELSE Taken.status = "message_size"
  <2>1. Mirrors(Fields, n, value, out, frame, pos)
    BY <1>1 DEF CodecsMirror, Fields
  <2> QED
    BY <1>1, <1>3, <1>4, <1>5, <1>6, <2>1 DEF Mirrors
<1>8. ~ (Before(n + 1) <= Len(frame)) => fate = "cut"
  <2>1. fate = "whole" => Len(wire) <= Len(frame)
    BY DEF Behindhand, WireInv, ArrivalInv
  <2>2. Len(wire) \in Nat /\ Len(frame) \in Nat
    BY <1>1
  <2> QED
    BY <1>1, <1>3, <2>1, <2>2 DEF Behindhand
<1> QED
  BY <1>3, <1>7, <1>8

\* A step within the struct leads to the next field, if what the reader holds
\* of this one is what the writer held.
LEMMA NextField ==
  ASSUME NEW n, Behindhand(n), n <= Len(Fields),
         UNCHANGED <<msg, value, wire, ends, frame, fate, phase>>, at' = n + 1,
         pos' = Before(n + 1), Before(n + 1) <= Len(frame),
         open' = Present(Fields, n, value),
         \A i \in DOMAIN Fields : Stored(Fields[i].type) /\ i # n =>
           out'[Fields[i].name] = out[Fields[i].name],
         Stored(Fields[n].type) => out'[Fields[n].name] = value[Fields[n].name]
  PROVE  ReadInv'
<1>1. /\ DOMAIN Fields = 1..Len(Fields) /\ Len(Fields) \in Nat /\ n \in 1..Len(Fields)
  BY WhereReaderStands
<1>2. Fields' = Fields /\ phase' = "read" /\ \A i : Before(i)' = Before(i)
  BY LaidStays DEF Behindhand
<1>3. ReaderInv'
  BY DEF ReaderInv
<1>4. RoundTrip' /\ CutRefused'
  BY <1>2 DEF RoundTrip, CutRefused
<1>5. InStep'
  <2>1. pos' = Before(at)'
    BY LaidStays DEF Before
  <2>2. ASSUME NEW i \in DOMAIN Fields, Stored(Fields[i].type)
        PROVE  out'[Fields[i].name] =
                 IF i < n + 1 THEN value[Fields[i].name] ELSE Initial(Fields[i].type)
    <3>1. CASE i = n
      BY <1>1, <2>2, <3>1
    <3>2. CASE i # n
      <4>1. out[Fields[i].name] = IF i < n THEN value[Fields[i].name] ELSE Initial(Fields[i].type)
        BY <2>2 DEF Behindhand, ReadInv, InStep
      <4>2. i < n <=> i < n + 1
        BY <1>1, <3>2
      <4> QED
        BY <2>2, <3>2, <4>1, <4>2
    <3> QED
      BY <3>1, <3>2
  <2>3. (\A i \in DOMAIN Fields : Stored(Fields[i].type) =>
           out[Fields[i].name] = IF i < at THEN value[Fields[i].name] ELSE Initial(Fields[i].type))'
    BY <1>2, <2>2
  <2>4. open' = Present(Fields, at - 1, value)'
    BY <1>1, <1>2
  <2> QED
    BY <2>1, <2>3, <2>4 DEF InStep
<1> QED
  BY <1>3, <1>4, <1>5 DEF ReadInv

LEMMA SkipFieldReads ==
  ASSUME GuardsLookBack, NEW n, Behindhand(n), SkipField
  PROVE  ReadInv'
<1>1. /\ n <= Len(Fields) /\ open' = FALSE /\ at' = n + 1 /\ ~ Enters(Fields, n, out, open)
      /\ UNCHANGED <<msg, value, wire, ends, frame, fate, phase, pos, out, status>>
  BY Zenon DEF SkipField, Behindhand
<1>2. ~ Present(Fields, n, value)
  BY <1>1, ReaderDecides
<1>3. /\ DOMAIN Fields = 1..Len(Fields) /\ n \in 1..Len(Fields)
      /\ pos \in Nat /\ pos <= Len(frame)
  BY <1>1, WhereReaderStands
<1>4. Before(n + 1) = pos
  <2>1. Piece(n) = <<>>
    BY <1>2 DEF Piece, BytesAt
  <2> QED
    BY <1>1, <1>3, <2>1, FieldAhead
<1>5. Stored(Fields[n].type) => out[Fields[n].name] = value[Fields[n].name]
  <2>1. Stored(Fields[n].type) => value[Fields[n].name] = Initial(Fields[n].type)
    BY <1>2, <1>3 DEF Behindhand, Carried, CarriedAt
  <2>2. Stored(Fields[n].type) => out[Fields[n].name] = Initial(Fields[n].type)
    BY <1>3 DEF Behindhand, ReadInv, InStep
  <2> QED
    BY <2>1, <2>2
<1>6. open' = Present(Fields, n, value)
  BY <1>1, <1>2 DEF Present
<1> QED
  BY <1>1, <1>3, <1>4, <1>5, <1>6, NextField

LEMMA ReadFieldReads ==
  ASSUME GuardsLookBack, CodecsMirror, NEW n, Behindhand(n), ReadField
  PROVE  ReadInv'
<1>1. /\ n <= Len(Fields) /\ open' = TRUE /\ at' = n + 1 /\ Enters(Fields, n, out, open)
      /\ Taken.status = "ok" /\ pos' = Taken.pos
      /\ out' = IF Stored(Fields[n].type) THEN [out EXCEPT ![Fields[n].name] = Taken.value] ELSE out
      /\ UNCHANGED <<msg, value, wire, ends, frame, fate, phase>>
  BY Zenon DEF ReadField, Behindhand
<1>2. Present(Fields, n, value)
  BY <1>1, ReaderDecides
<1>3. /\ msg \in DOMAIN Messages /\ DOMAIN Fields = 1..Len(Fields) /\ n \in 1..Len(Fields)
  BY <1>1, WhereReaderStands
<1>4. /\ Before(n + 1) <= Len(frame) /\ pos' = Before(n + 1)
      /\ Stored(Fields[n].type) => Taken.value = value[Fields[n].name]
  BY <1>1, <1>2, ReaderTakes
<1>5. out = [x \in Members(Fields) |-> out[x]]
  BY DEF Behindhand, WireInv, TypeOK, IsStruct
<1>6. ASSUME NEW i \in DOMAIN Fields, Stored(Fields[i].type), i # n
      PROVE  out'[Fields[i].name] = out[Fields[i].name]
  <2>1. Fields[i].name # Fields[n].name
    BY <1>3, <1>6, FieldsAreFields DEF IsMessage, Fields
  <2>2. Fields[i].name \in Members(Fields)
    BY <1>3, <1>6, MemberOf DEF Fields
  <2> QED
    BY <1>1, <1>5, <2>1, <2>2
<1>7. Stored(Fields[n].type) => out'[Fields[n].name] = value[Fields[n].name]
  <2>1. SUFFICES ASSUME Stored(Fields[n].type) PROVE out'[Fields[n].name] = Taken.value
    BY <1>4
  <2>2. Fields[n].name \in Members(Fields)
    BY <1>3, <2>1, MemberOf DEF Fields
  <2> QED
    BY <1>1, <1>5, <2>1, <2>2
<1>8. open' = Present(Fields, n, value)
  BY <1>1, <1>2 DEF Present
<1> QED
  BY <1>1, <1>4, <1>6, <1>7, <1>8, NextField

LEMMA ReadFailsReads ==
  ASSUME GuardsLookBack, CodecsMirror, NEW n, Behindhand(n), ReadFails
  PROVE  ReadInv'
<1>1. /\ n <= Len(Fields) /\ Enters(Fields, n, out, open) /\ Taken.status # "ok"
      /\ status' = Taken.status /\ phase' = "done" /\ fate' = fate
  BY Zenon DEF ReadFails, Behindhand
<1>2. Taken.status = "message_size" /\ fate = "cut"
  BY <1>1, ReaderDecides, ReaderTakes
<1> QED
  BY <1>1, <1>2 DEF ReadInv, ReaderInv, InStep, RoundTrip, CutRefused

LEMMA ReadEndsReads ==
  ASSUME NEW n, Behindhand(n), ReadEnds
  PROVE  ReadInv'
<1>1. /\ n > Len(Fields) /\ status' = "ok" /\ phase' = "done"
      /\ UNCHANGED <<msg, value, wire, fate, pos, out>>
  BY Zenon DEF ReadEnds, Behindhand
<1>2. /\ msg \in DOMAIN Messages /\ DOMAIN Fields = 1..Len(Fields) /\ Len(Fields) \in Nat
      /\ n = Len(Fields) + 1 /\ value \in Values[msg]
      /\ frame \in Seq(Octets) /\ wire \in Seq(Octets)
      /\ pos = Len(wire) /\ pos <= Len(frame)
  BY <1>1, WhereReaderStands
<1>3. fate # "cut"
  <2>1. Len(wire) \in Nat /\ Len(frame) \in Nat
    BY <1>2
  <2>2. fate = "cut" => Len(frame) < Len(wire)
    BY DEF Behindhand, WireInv, ArrivalInv
  <2> QED
    BY <1>2, <2>1, <2>2
<1>4. out = value
  <2>1. ASSUME NEW x \in Members(Fields) PROVE out[x] = value[x]
    <3>1. PICK i \in DOMAIN Fields : Stored(Fields[i].type) /\ x = Fields[i].name
      BY DEF Members
    <3> QED
      BY <1>2, <3>1 DEF Behindhand, ReadInv, InStep
  <2>2. IsStruct(Fields, out) /\ IsStruct(Fields, value)
    BY <1>2, MessagesAssumption DEF Behindhand, WireInv, TypeOK, Fields
  <2>3. /\ out = [x \in Members(Fields) |-> out[x]]
        /\ value = [x \in Members(Fields) |-> value[x]]
    BY <2>2 DEF IsStruct
  <2> QED
    BY <2>1, <2>3
<1> QED
  BY <1>1, <1>2, <1>3, <1>4 DEF ReadInv, ReaderInv, InStep, RoundTrip, CutRefused

LEMMA DeliverReads ==
  ASSUME WireInv, Deliver, fate' \in {"whole", "cut"}, frame' \in Seq(Octets)
  PROVE  ReadInv'
<1>1. /\ phase' = "read" /\ at' = 1 /\ UNCHANGED <<msg, value, wire, ends, pos, out>>
      /\ out = Fresh(Fields) /\ pos = 0
  BY DEF Deliver, WireInv, WriterInv
<1>2. Fields' = Fields /\ msg \in DOMAIN Messages /\ DOMAIN Fields = 1..Len(Fields) /\ Len(Fields) \in Nat
  BY <1>1, FieldsAreFields DEF Fields, WireInv, TypeOK
<1>3. ReaderInv'
  BY <1>1 DEF ReaderInv
<1>4. RoundTrip' /\ CutRefused'
  BY <1>1 DEF RoundTrip, CutRefused
<1>5. InStep'
  <2>1. pos' = Before(at)'
    BY <1>1 DEF Before
  <2>2. ASSUME NEW i \in DOMAIN Fields, Stored(Fields[i].type)
        PROVE  out'[Fields[i].name] = Initial(Fields[i].type)
    BY <1>1, <1>2, <2>2, MemberOf DEF Fields
  <2>3. (\A i \in DOMAIN Fields : Stored(Fields[i].type) =>
           out[Fields[i].name] = IF i < at THEN value[Fields[i].name] ELSE Initial(Fields[i].type))'
    BY <1>1, <1>2, <2>2
  <2> QED
    BY <1>1, <2>1, <2>3 DEF InStep
<1> QED
  BY <1>3, <1>4, <1>5 DEF ReadInv

LEMMA StepRead ==
  ASSUME GuardsLookBack, CodecsMirror, WireInv, ReadInv, [Next]_vars
  PROVE  ReadInv'
<1>1. CASE WriteField \/ Written
  <2>1. phase' \in {"write", "sent"}
    BY <1>1 DEF WriteField, Written
  <2> QED
    BY <2>1 DEF ReadInv, ReaderInv, InStep, RoundTrip, CutRefused
<1>2. CASE Arrive \/ Cut
  <2>1. Deliver /\ fate' \in {"whole", "cut"}
    BY <1>2 DEF Arrive, Cut
  <2>2. frame' \in Seq(Octets)
    BY StepWire DEF WireInv, TypeOK
  <2> QED
    BY <2>1, <2>2, DeliverReads
<1>3. CASE SkipField \/ ReadField \/ ReadFails \/ ReadEnds
  <2>1. UNCHANGED <<msg, value, fate>> /\ phase = "read"
    BY <1>3 DEF SkipField, ReadField, ReadFails, ReadEnds
  <2>2. CASE fate \in {"whole", "cut"} /\ Carried(Fields, value)
    <3>1. Behindhand(at)
      BY <2>1, <2>2 DEF Behindhand
    <3> QED
      BY <1>3, <3>1, SkipFieldReads, ReadFieldReads, ReadFailsReads, ReadEndsReads
  <2>3. CASE ~ (fate \in {"whole", "cut"} /\ Carried(Fields, value))
    <3>1. ~ (fate' \in {"whole", "cut"} /\ Carried(Fields, value)')
      BY <2>1, <2>3 DEF Fields, Carried, CarriedAt
    <3> QED
      BY <3>1 DEF ReadInv, ReaderInv, InStep, RoundTrip, CutRefused
  <2> QED
    BY <2>2, <2>3
<1>4. CASE Done \/ UNCHANGED vars
  <2>1. UNCHANGED vars
    BY <1>4 DEF Done
  <2> QED
    BY <2>1 DEF vars, ReadInv, ReaderInv, InStep, RoundTrip, CutRefused, Fields, Carried, CarriedAt, Before
<1> QED
  BY <1>1, <1>2, <1>3, <1>4 DEF Next

LEMMA MessageInvariant ==
  ASSUME GuardsLookBack, CodecsMirror
  PROVE  Spec => [](WireInv /\ ReadInv)
<1>1. Init => WireInv /\ ReadInv
  BY InitWire, InitRead
<1>2. WireInv /\ ReadInv /\ [Next]_vars => (WireInv /\ ReadInv)'
  BY StepWire, StepRead
<1> QED
  BY <1>1, <1>2, PTL DEF Spec

\* If every guard looks back and every field's reader mirrors its writer, then
\* the struct's reader and writer are in step at every field.
THEOREM ReaderInStep ==
  ASSUME GuardsLookBack, CodecsMirror
  PROVE  Spec => []InStep
<1>1. WireInv /\ ReadInv => InStep
  BY DEF ReadInv
<1> QED
  BY <1>1, MessageInvariant, PTL

\* ... every struct the wire can carry is read back as it was, and the reader
\* stops where the writer did,
THEOREM StructsRoundTrip ==
  ASSUME GuardsLookBack, CodecsMirror
  PROVE  Spec => []RoundTrip
<1>1. WireInv /\ ReadInv => RoundTrip
  BY DEF ReadInv
<1> QED
  BY <1>1, MessageInvariant, PTL

\* ... and none is read from a frame that stops short of its end.
THEOREM CutItemsAreRefused ==
  ASSUME GuardsLookBack, CodecsMirror
  PROVE  Spec => []CutRefused
<1>1. WireInv /\ ReadInv => CutRefused
  BY DEF ReadInv
<1> QED
  BY <1>1, MessageInvariant, PTL

-----------------------------------------------------------------------------
(* The reader of whatever bytes.                                           *)

\* A concatenation is of the elements of its parts, and one with a part more
\* has that part behind it.
LEMMA FlattenUnfolds ==
  ASSUME NEW S, NEW n \in Nat, NEW parts \in [1..n -> Seq(S)]
  PROVE  /\ FlattenSeq(parts) \in Seq(S)
         /\ n = 0 => FlattenSeq(parts) = <<>>
         /\ n > 0 => FlattenSeq(parts) = FlattenSeq([i \in 1..(n - 1) |-> parts[i]]) \o parts[n]
<1> DEFINE step == [kx \in Nat \X Seq(S) |->
                      IF kx[1] + 1 \in 1..n THEN kx[2] \o parts[kx[1] + 1] ELSE kx[2]]
           Joins(f, m) == f = [i \in 1..m |-> IF i = 1 THEN parts[i] ELSE f[i - 1] \o parts[i]]
<1>1. step \in [Nat \X Seq(S) -> Seq(S)]
  <2> SUFFICES ASSUME NEW k \in Nat, NEW x \in Seq(S)
               PROVE  (IF k + 1 \in 1..n THEN x \o parts[k + 1] ELSE x) \in Seq(S)
    OBVIOUS
  <2> QED
    OBVIOUS
<1>2. PICK g \in [0 .. n -> Seq(S)] : Unfolds(g, n, <<>>, step)
  <2> DEFINE V == Seq(S)
             start == <<>>
  <2>1. start \in V /\ step \in [Nat \X V -> V]
    BY <1>1
  <2> HIDE DEF step, V, start
  <2>2. \E g \in [0 .. n -> V] : Unfolds(g, n, start, step)
    BY <2>1, UnfoldingsExist
  <2> QED
    BY <2>2 DEF V, start
<1>3. \A i \in 1..n : g[i] = IF i = 1 THEN parts[i] ELSE g[i - 1] \o parts[i]
  <2> SUFFICES ASSUME NEW i \in 1..n
               PROVE  g[i] = IF i = 1 THEN parts[i] ELSE g[i - 1] \o parts[i]
    OBVIOUS
  <2>1. i - 1 \in 0 .. (n - 1) /\ i - 1 + 1 = i /\ g[i - 1] \in Seq(S) /\ <<i - 1, g[i - 1]>> \in Nat \X Seq(S)
    OBVIOUS
  <2> HIDE DEF step
  <2>2. g[i] = step[<<i - 1, g[i - 1]>>]
    BY <1>2, <2>1 DEF Unfolds
  <2> USE DEF step
  <2>3. step[<<i - 1, g[i - 1]>>] = g[i - 1] \o parts[i]
    BY <2>1
  <2>4. i = 1 => g[i - 1] \o parts[i] = parts[i]
    <3>1. parts[i] \in Seq(S) /\ <<>> \o parts[i] = parts[i]
      OBVIOUS
    <3>2. i = 1 => g[i - 1] = <<>>
      BY <1>2 DEF Unfolds
    <3> QED
      BY <3>1, <3>2
  <2> HIDE DEF step
  <2> QED
    BY <2>2, <2>3, <2>4
<1> HIDE DEF step
<1>4. ASSUME NEW m \in 1..n, NEW f, Joins(f, m)
      PROVE  f[m] = g[m]
  <2> DEFINE K == {k \in Nat : k + 1 <= m => f[k + 1] = g[k + 1]}
  <2>0. \A i \in 1..m : f[i] = IF i = 1 THEN parts[i] ELSE f[i - 1] \o parts[i]
    BY <1>4
  <2> HIDE DEF Joins
  <2>1. 0 \in K
    <3>1. 1 \in 1..m /\ 1 \in 1..n
      OBVIOUS
    <3>2. f[1] = parts[1] /\ g[1] = parts[1]
      BY <1>3, <2>0, <3>1
    <3> QED
      BY <3>2
  <2>2. ASSUME NEW k \in Nat, k \in K PROVE k + 1 \in K
    <3>1. SUFFICES ASSUME k + 2 <= m PROVE f[k + 2] = g[k + 2]
      OBVIOUS
    <3>2. k + 2 \in 1..m /\ k + 2 \in 1..n /\ k + 2 # 1 /\ (k + 2) - 1 = k + 1 /\ k + 1 <= m
      BY <3>1
    <3>3. f[k + 1] = g[k + 1]
      BY <2>2, <3>2
    <3>4. \A i \in 1..n : i # 1 => g[i] = g[i - 1] \o parts[i]
      BY <1>3
    <3>5. \A i \in 1..m : i # 1 => f[i] = f[i - 1] \o parts[i]
      BY <2>0
    <3>6. f[k + 2] = f[(k + 2) - 1] \o parts[k + 2] /\ g[k + 2] = g[(k + 2) - 1] \o parts[k + 2]
      <4> DEFINE j == k + 2
      <4>1. j \in 1..m /\ j \in 1..n /\ j # 1
        BY <3>2
      <4> HIDE DEF j
      <4>2. f[j] = f[j - 1] \o parts[j]
        BY <3>5, <4>1, Zenon
      <4>3. g[j] = g[j - 1] \o parts[j]
        BY <3>4, <4>1, Zenon
      <4> QED
        BY <4>2, <4>3, Zenon DEF j
    <3>7. f[(k + 2) - 1] = g[(k + 2) - 1]
      BY <3>2, <3>3
    <3> QED
      BY <3>6, <3>7
  <2> HIDE DEF K
  <2>3. Nat \subseteq K
    BY <2>1, <2>2, SetInduction
  <2>4. m - 1 \in Nat /\ m - 1 + 1 <= m /\ m - 1 + 1 = m
    OBVIOUS
  <2> QED
    BY <2>3, <2>4 DEF K
<1>5. ASSUME NEW m \in 1..n
      PROVE  FlattenSeq([i \in 1..m |-> parts[i]]) = g[m]
  <2> DEFINE p == [i \in 1..m |-> parts[i]]
             E(f) == [i \in 1..Len(p) |-> IF i = 1 THEN p[i] ELSE f[i - 1] \o p[i]]
             c == CHOOSE f : f = E(f)
             h == [i \in 1..m |-> g[i]]
  <2>1. p \in Seq(Seq(S)) /\ Len(p) = m /\ \A i \in 1..m : p[i] = parts[i]
    OBVIOUS
  <2>2. FlattenSeq(p) = c[m]
    <3>1. Len(p) # 0
      BY <2>1
    <3> HIDE DEF p
    <3>2. FlattenSeq(p) = c[Len(p)]
      BY <3>1, Zenon DEF FlattenSeq
    <3> QED
      BY <2>1, <3>2
  <2> HIDE DEF p
  <2>3. \A f : E(f) = [i \in 1..m |-> IF i = 1 THEN parts[i] ELSE f[i - 1] \o parts[i]]
    BY <2>1
  <2>4. h = E(h)
    <3>1. ASSUME NEW i \in 1..m PROVE g[i] = IF i = 1 THEN parts[i] ELSE h[i - 1] \o parts[i]
      <4>1. g[i] = IF i = 1 THEN parts[i] ELSE g[i - 1] \o parts[i]
        BY <1>3
      <4>2. i # 1 => h[i - 1] = g[i - 1]
        OBVIOUS
      <4> HIDE DEF h
      <4> QED
        BY <4>1, <4>2
    <3>2. E(h) = [i \in 1..m |-> IF i = 1 THEN parts[i] ELSE h[i - 1] \o parts[i]]
      BY <2>3
    <3>3. [i \in 1..m |-> IF i = 1 THEN parts[i] ELSE h[i - 1] \o parts[i]] = [i \in 1..m |-> g[i]]
      BY <3>1
    <3> HIDE DEF E
    <3> QED
      BY <3>2, <3>3
  <2> HIDE DEF h
  <2>5. c = E(c)
    BY <2>4
  <2> HIDE DEF c
  <2>6. Joins(c, m)
    BY <2>3, <2>5
  <2> QED
    BY <1>4, <2>2, <2>6 DEF p
<1>6. CASE n = 0
  <2>1. parts = <<>>
    BY <1>6
  <2>2. FlattenSeq(parts) = <<>>
    BY <2>1 DEF FlattenSeq
  <2> QED
    BY <1>6, <2>2
<1>7. CASE n > 0
  <2>1. FlattenSeq(parts) = g[n]
    <3>1. n \in 1..n /\ parts = [i \in 1..n |-> parts[i]]
      BY <1>7
    <3> QED
      BY <1>5, <3>1
  <2>2. FlattenSeq([i \in 1..(n - 1) |-> parts[i]]) = g[n - 1]
    <3>1. CASE n = 1
      <4>1. [i \in 1..(n - 1) |-> parts[i]] = <<>>
        BY <3>1
      <4>2. FlattenSeq(<<>>) = <<>>
        BY DEF FlattenSeq
      <4> QED
        BY <1>2, <3>1, <4>1, <4>2 DEF Unfolds
    <3>2. CASE n # 1
      <4>1. n - 1 \in 1..n
        BY <1>7, <3>2
      <4> QED
        BY <1>5, <4>1
    <3> QED
      BY <3>1, <3>2
  <2>3. g[n] = g[n - 1] \o parts[n]
    <3>1. n \in 1..n
      BY <1>7
    <3>2. n = 1 => g[n - 1] \o parts[n] = parts[n]
      <4>1. parts[n] \in Seq(S) /\ <<>> \o parts[n] = parts[n]
        BY <3>1
      <4>2. n = 1 => g[n - 1] = <<>>
        BY <1>2 DEF Unfolds
      <4> QED
        BY <4>1, <4>2
    <3> QED
      BY <1>3, <3>1, <3>2
  <2>4. g[n] \in Seq(S)
    OBVIOUS
  <2> HIDE DEF Joins
  <2>5. FlattenSeq(parts) = FlattenSeq([i \in 1..(n - 1) |-> parts[i]]) \o parts[n]
    BY <2>1, <2>2, <2>3, Zenon
  <2> QED
    BY <1>7, <2>1, <2>4, <2>5
<1> HIDE DEF Joins
<1>8. n = 0 \/ n > 0
  OBVIOUS
<1> QED
  BY <1>6, <1>7, <1>8, Zenon

\* Two stretches of a frame, one behind the other.
LEMMA Stretches ==
  ASSUME NEW S, NEW f \in Seq(S), NEW p \in 0..Len(f), NEW q \in p..Len(f)
  PROVE  /\ SubSeq(f, 1, p) \in Seq(S) /\ SubSeq(f, p + 1, q) \in Seq(S)
         /\ SubSeq(f, 1, q) = SubSeq(f, 1, p) \o SubSeq(f, p + 1, q)
<1>1. /\ Len(f) \in Nat /\ p \in Nat /\ q \in Nat /\ p <= q /\ q <= Len(f)
  OBVIOUS
<1>2. SubSeq(f, 1, p) \in Seq(S) /\ SubSeq(f, p + 1, q) \in Seq(S) /\ SubSeq(f, 1, q) \in Seq(S)
  BY <1>1
<1> DEFINE a == SubSeq(f, 1, p)
           b == SubSeq(f, p + 1, q)
           c == SubSeq(f, 1, q)
<1>3. Len(a) = p /\ Len(b) = q - p /\ Len(c) = q
  BY <1>1
<1>4. /\ \A k \in 1..p : a[k] = f[k]
      /\ \A k \in 1..(q - p) : b[k] = f[p + k]
      /\ \A k \in 1..q : c[k] = f[k]
  BY <1>1
<1>5. a \in Seq(S) /\ b \in Seq(S) /\ c \in Seq(S)
  BY <1>2
<1> HIDE DEF a, b, c
<1>6. a \o b \in Seq(S) /\ Len(a \o b) = q
  BY <1>1, <1>3, <1>5
<1>7. ASSUME NEW k \in 1..q PROVE c[k] = (a \o b)[k]
  <2>1. CASE k <= p
    <3>1. (a \o b)[k] = a[k]
      BY <1>1, <1>3, <1>5, <2>1
    <3> QED
      BY <1>1, <1>4, <2>1, <3>1
  <2>2. CASE k > p
    <3>1. (a \o b)[k] = b[k - p] /\ k - p \in 1..(q - p) /\ p + (k - p) = k
      BY <1>1, <1>3, <1>5, <2>2
    <3>2. b[k - p] = f[k]
      BY <1>4, <3>1
    <3> QED
      BY <1>4, <3>1, <3>2
  <2>3. k <= p \/ k > p
    BY <1>1
  <2> QED
    BY <2>1, <2>2, <2>3
<1>8. c = a \o b
  BY <1>3, <1>5, <1>6, <1>7
<1> QED
  BY <1>2, <1>8 DEF a, b, c

AnyInv == ReadSoFar /\ AcceptedIsCarried /\ AcceptedIsWritten

\* The reader of any frame, before its n-th field.
Reader(n) ==
  /\ WireInv /\ AnyInv
  /\ phase = "read" /\ n = at

LEMMA WhereAnyReaderStands ==
  ASSUME NEW n, Reader(n)
  PROVE  /\ msg \in DOMAIN Messages /\ Len(Fields) \in Nat /\ DOMAIN Fields = 1..Len(Fields)
         /\ n \in 1..(Len(Fields) + 1) /\ frame \in Seq(Octets) /\ Len(frame) \in Nat
         /\ pos \in 0 .. Len(frame) /\ IsStruct(Fields, out)
<1>1. /\ msg \in DOMAIN Messages /\ n \in 1..(Len(Fields) + 1) /\ frame \in Seq(Octets)
      /\ IsStruct(Fields, out)
  BY DEF Reader, WireInv, TypeOK
<1>2. Len(Fields) \in Nat /\ DOMAIN Fields = 1..Len(Fields)
  BY <1>1, FieldsAreFields DEF Fields
<1>3. pos \in 0 .. Len(frame)
  BY DEF Reader, AnyInv, ReadSoFar
<1> QED
  BY <1>1, <1>2, <1>3

\* It enters a block as the struct it has read so far says.
LEMMA AnyReaderDecides ==
  ASSUME NEW n, Reader(n), n <= Len(Fields)
  PROVE  Enters(Fields, n, out, open) = Present(Fields, n, out)
<1>1. /\ msg \in DOMAIN Messages /\ DOMAIN Fields = 1..Len(Fields) /\ Len(Fields) \in Nat
      /\ n \in 1..Len(Fields)
  BY WhereAnyReaderStands
<1>2. n > 1 => open = Present(Fields, n - 1, out)
  BY DEF Reader, AnyInv, ReadSoFar
<1> QED
  BY <1>1, <1>2, BlockSharesGuard DEF Fields

\* What is said of a field is said of every struct that agrees up to it.
LEMMA FieldLooksBack ==
  ASSUME GuardsLookBack, CarriesLookBack,
         NEW m \in DOMAIN Messages, NEW i \in DOMAIN Messages[m], NEW s, NEW o,
         Agree(Messages[m], i + 1, s, o)
  PROVE  /\ Present(Messages[m], i, s) = Present(Messages[m], i, o)
         /\ Held(Messages[m], i, s) = Held(Messages[m], i, o)
         /\ BytesAt(Messages[m], i, s) = BytesAt(Messages[m], i, o)
         /\ CarriedAt(Messages[m], i, s) <=> CarriedAt(Messages[m], i, o)
<1>1. DOMAIN Messages[m] = 1..Len(Messages[m]) /\ Len(Messages[m]) \in Nat
  BY FieldsAreFields
<1>2. Agree(Messages[m], i, s, o)
  BY <1>1 DEF Agree
<1>3. Present(Messages[m], i, s) = Present(Messages[m], i, o)
  BY <1>2 DEF GuardsLookBack
<1>4. Stored(Messages[m][i].type) => o[Messages[m][i].name] = s[Messages[m][i].name]
  BY <1>1 DEF Agree
<1>5. Held(Messages[m], i, s) = Held(Messages[m], i, o)
  BY <1>4 DEF Held
<1>6. Carries(Messages[m][i].type, Held(Messages[m], i, s), s)
        <=> Carries(Messages[m][i].type, Held(Messages[m], i, o), o)
  BY DEF CarriesLookBack
<1>7. BytesAt(Messages[m], i, s) = BytesAt(Messages[m], i, o)
  BY <1>3, <1>5 DEF BytesAt
<1>8. CarriedAt(Messages[m], i, s) <=> CarriedAt(Messages[m], i, o)
  BY <1>3, <1>4, <1>6 DEF CarriedAt
<1> QED
  BY <1>3, <1>5, <1>7, <1>8

\* A reader that has the n-th field behind it, carried and of the bytes it
\* passed, and has left the other fields alone.
LEMMA FieldGained ==
  ASSUME GuardsLookBack, CarriesLookBack, NEW n, Reader(n), n <= Len(Fields),
         UNCHANGED <<msg, frame, phase>>, at' = n + 1, pos' \in pos .. Len(frame),
         open' = Present(Fields, n, out'),
         \A i \in DOMAIN Fields : Stored(Fields[i].type) /\ i # n =>
           out'[Fields[i].name] = out[Fields[i].name],
         CarriedAt(Fields, n, out'),
         OneSpelling(Fields) => SubSeq(frame, pos + 1, pos') = BytesAt(Fields, n, out')
  PROVE  AnyInv'
<1>1. /\ msg \in DOMAIN Messages /\ DOMAIN Fields = 1..Len(Fields) /\ Len(Fields) \in Nat
      /\ n \in 1..Len(Fields) /\ frame \in Seq(Octets) /\ Len(frame) \in Nat
      /\ pos \in 0 .. Len(frame)
  BY WhereAnyReaderStands
<1>2. /\ \A i \in DOMAIN Fields :
           IF i < n THEN CarriedAt(Fields, i, out)
           ELSE Stored(Fields[i].type) => out[Fields[i].name] = Initial(Fields[i].type)
      /\ OneSpelling(Fields) =>
           /\ \A i \in 1..(n - 1) : BytesAt(Fields, i, out) \in Seq(Octets)
           /\ SubSeq(frame, 1, pos) = Spelling(Fields, out, n - 1)
  BY DEF Reader, AnyInv, ReadSoFar
<1>3. ASSUME NEW i \in 1..(n - 1)
      PROVE  /\ BytesAt(Fields, i, out') = BytesAt(Fields, i, out)
             /\ CarriedAt(Fields, i, out') <=> CarriedAt(Fields, i, out)
  <2>1. i \in DOMAIN Fields /\ Agree(Fields, i + 1, out, out')
    BY <1>1 DEF Agree
  <2> QED
    BY <1>1, <2>1, FieldLooksBack DEF Fields
<1>4. ASSUME NEW i \in DOMAIN Fields
      PROVE  IF i < n + 1 THEN CarriedAt(Fields, i, out')
             ELSE Stored(Fields[i].type) => out'[Fields[i].name] = Initial(Fields[i].type)
  <2>1. CASE i < n
    <3>1. i \in 1..(n - 1) /\ i < n + 1
      BY <1>1, <2>1
    <3> QED
      BY <1>2, <1>3, <2>1, <3>1
  <2>2. CASE i = n
    BY <1>1, <2>2
  <2>3. CASE i > n
    <3>1. ~ (i < n) /\ ~ (i < n + 1) /\ i # n
      BY <1>1, <2>3
    <3> QED
      BY <1>2, <3>1
  <2> QED
    BY <1>1, <2>1, <2>2, <2>3
<1>5. ASSUME OneSpelling(Fields)
      PROVE  /\ \A i \in 1..n : BytesAt(Fields, i, out') \in Seq(Octets)
             /\ SubSeq(frame, 1, pos') = Spelling(Fields, out', n)
  <2>1. SubSeq(frame, pos + 1, pos') \in Seq(Octets)
        /\ SubSeq(frame, 1, pos') = SubSeq(frame, 1, pos) \o SubSeq(frame, pos + 1, pos')
    BY <1>1, Stretches
  <2>2. \A i \in 1..n : BytesAt(Fields, i, out') \in Seq(Octets)
    <3> SUFFICES ASSUME NEW i \in 1..n PROVE BytesAt(Fields, i, out') \in Seq(Octets)
      OBVIOUS
    <3>1. CASE i = n
      BY <1>5, <2>1, <3>1
    <3>2. CASE i # n
      <4>1. i \in 1..(n - 1)
        BY <1>1, <3>2
      <4> QED
        BY <1>2, <1>3, <1>5, <4>1
    <3> QED
      BY <3>1, <3>2
  <2> DEFINE parts == [i \in 1..n |-> BytesAt(Fields, i, out')]
  <2>3. parts \in [1..n -> Seq(Octets)] /\ n \in Nat /\ n > 0
    BY <1>1, <2>2
  <2>4. FlattenSeq(parts) = FlattenSeq([i \in 1..(n - 1) |-> parts[i]]) \o parts[n]
    <3> HIDE DEF parts
    <3> QED
      BY <2>3, FlattenUnfolds
  <2>5. [i \in 1..(n - 1) |-> parts[i]] = [i \in 1..(n - 1) |-> BytesAt(Fields, i, out)]
    <3>1. \A i \in 1..(n - 1) : parts[i] = BytesAt(Fields, i, out)
      BY <1>1, <1>3
    <3> QED
      BY <3>1
  <2>6. parts[n] = SubSeq(frame, pos + 1, pos')
    <3>1. n \in 1..n
      BY <1>1
    <3>2. parts[n] = BytesAt(Fields, n, out')
      BY <3>1
    <3> QED
      BY <1>5, <3>2
  <2> HIDE DEF parts
  <2>7. FlattenSeq(parts) = SubSeq(frame, 1, pos')
    BY <1>2, <1>5, <2>1, <2>4, <2>5, <2>6 DEF Spelling
  <2> QED
    BY <2>2, <2>7 DEF parts, Spelling
<1>6. Fields' = Fields
  BY DEF Fields
<1>7. ReadSoFar'
  <2>1. pos' \in 0 .. Len(frame') /\ at' - 1 = n
    BY <1>1
  <2> QED
    BY <1>4, <1>5, <1>6, <2>1 DEF ReadSoFar
<1>8. phase' = "read"
  BY DEF Reader
<1> QED
  BY <1>7, <1>8 DEF AnyInv, AcceptedIsCarried, AcceptedIsWritten

LEMMA AnySkipsField ==
  ASSUME GuardsLookBack, CarriesLookBack, NEW n, Reader(n), SkipField
  PROVE  AnyInv'
<1>1. /\ n <= Len(Fields) /\ open' = FALSE /\ at' = n + 1 /\ ~ Enters(Fields, n, out, open)
      /\ UNCHANGED <<msg, frame, phase, pos, out>>
  BY Zenon DEF SkipField, Reader
<1>2. ~ Present(Fields, n, out)
  BY <1>1, AnyReaderDecides
<1>3. /\ DOMAIN Fields = 1..Len(Fields) /\ Len(Fields) \in Nat /\ n \in 1..Len(Fields)
      /\ Len(frame) \in Nat /\ pos \in 0 .. Len(frame) /\ frame \in Seq(Octets)
  BY <1>1, WhereAnyReaderStands
<1>4. CarriedAt(Fields, n, out')
  <2>1. Stored(Fields[n].type) => out[Fields[n].name] = Initial(Fields[n].type)
    BY <1>3 DEF Reader, AnyInv, ReadSoFar
  <2> QED
    BY <1>1, <1>2, <2>1 DEF CarriedAt
<1>5. SubSeq(frame, pos + 1, pos') = BytesAt(Fields, n, out')
  <2>1. SubSeq(frame, pos + 1, pos) = <<>>
    BY <1>3
  <2> QED
    BY <1>1, <1>2, <2>1 DEF BytesAt
<1>6. open' = Present(Fields, n, out')
  BY <1>1, <1>2 DEF Present
<1>7. pos' \in pos .. Len(frame)
  BY <1>1, <1>3
<1> QED
  BY <1>1, <1>4, <1>5, <1>6, <1>7, FieldGained

LEMMA AnyReadsField ==
  ASSUME GuardsLookBack, CarriesLookBack, CodecsAnswer, NEW n, Reader(n), ReadField
  PROVE  AnyInv'
<1>1. /\ n <= Len(Fields) /\ open' = TRUE /\ at' = n + 1 /\ Enters(Fields, n, out, open)
      /\ Taken.status = "ok" /\ pos' = Taken.pos
      /\ out' = IF Stored(Fields[n].type) THEN [out EXCEPT ![Fields[n].name] = Taken.value] ELSE out
      /\ UNCHANGED <<msg, frame, phase>>
  BY Zenon DEF ReadField, Reader
<1>2. Present(Fields, n, out)
  BY <1>1, AnyReaderDecides
<1>3. /\ msg \in DOMAIN Messages /\ DOMAIN Fields = 1..Len(Fields) /\ Len(Fields) \in Nat
      /\ n \in DOMAIN Fields
      /\ Len(frame) \in Nat /\ pos \in Nat /\ pos <= Len(frame) /\ frame \in Seq(Octets)
      /\ IsStruct(Fields, out)
  BY <1>1, WhereAnyReaderStands
<1>4. /\ \A j \in 1..(n - 1) : CarriedAt(Fields, j, out)
      /\ Stored(Fields[n].type) => out[Fields[n].name] = Initial(Fields[n].type)
  BY <1>3 DEF Reader, AnyInv, ReadSoFar
<1>5. Taken = Reading(Fields, n, out, frame, pos)
  BY DEF Taken, Reader
<1>6. Answers(Fields, n, out, frame, pos)
  BY <1>3 DEF CodecsAnswer, Fields
<1>7. /\ pos' \in pos .. Len(frame)
      /\ Carries(Fields[n].type, Held(Fields, n, out'), out')
      /\ Canonical(Fields[n].type) =>
           SubSeq(frame, pos + 1, pos') = Put(Fields[n].type, Held(Fields, n, out'))
  BY <1>1, <1>2, <1>3, <1>4, <1>5, <1>6 DEF Answers
<1>8. ASSUME NEW i \in DOMAIN Fields, Stored(Fields[i].type), i # n
      PROVE  out'[Fields[i].name] = out[Fields[i].name]
  <2>1. Fields[i].name # Fields[n].name
    BY <1>3, <1>8, FieldsAreFields DEF IsMessage, Fields
  <2>2. Fields[i].name \in Members(Fields)
    BY <1>3, <1>8, MemberOf DEF Fields
  <2>3. out = [x \in Members(Fields) |-> out[x]]
    BY <1>3 DEF IsStruct
  <2> QED
    BY <1>1, <2>1, <2>2, <2>3
<1>9. Present(Fields, n, out')
  <2>1. Agree(Fields, n, out, out')
    BY <1>3, <1>8 DEF Agree
  <2> QED
    BY <1>2, <1>3, <2>1 DEF GuardsLookBack, Fields
<1>10. open' = Present(Fields, n, out')
  BY <1>1, <1>9 DEF Present
<1>11. CarriedAt(Fields, n, out')
  BY <1>7, <1>9 DEF CarriedAt
<1>12. OneSpelling(Fields) => SubSeq(frame, pos + 1, pos') = BytesAt(Fields, n, out')
  BY <1>3, <1>7, <1>9 DEF OneSpelling, BytesAt
<1> QED
  BY <1>1, <1>7, <1>8, <1>10, <1>11, <1>12, FieldGained

LEMMA AnyReadEnds ==
  ASSUME NEW n, Reader(n), ReadEnds
  PROVE  AnyInv'
<1>1. /\ n > Len(Fields) /\ phase' = "done"
      /\ UNCHANGED <<msg, frame, pos, out>>
  BY Zenon DEF ReadEnds, Reader
<1>2. DOMAIN Fields = 1..Len(Fields) /\ Len(Fields) \in Nat /\ n = Len(Fields) + 1 /\ Fields' = Fields
  BY <1>1, WhereAnyReaderStands DEF Fields
<1>3. n - 1 = Len(Fields) /\ \A i \in DOMAIN Fields : i < n
  BY <1>2
<1>4. Carried(Fields, out)
  BY <1>3 DEF Reader, AnyInv, ReadSoFar, Carried
<1>5. OneSpelling(Fields) => SubSeq(frame, 1, pos) = Spelling(Fields, out, Len(Fields))
  BY <1>3 DEF Reader, AnyInv, ReadSoFar
<1> QED
  BY <1>1, <1>2, <1>4, <1>5 DEF AnyInv, ReadSoFar, AcceptedIsCarried, AcceptedIsWritten

\* At its first field a reader has read nothing.
Begins ==
  /\ msg \in DOMAIN Messages /\ frame \in Seq(Octets)
  /\ phase = "read" /\ at = 1 /\ pos = 0 /\ out = Fresh(Fields)

LEMMA ReaderBegins == Begins => AnyInv
<1> SUFFICES ASSUME Begins PROVE AnyInv
  OBVIOUS
<1> USE DEF Begins
<1>1. DOMAIN Fields = 1..Len(Fields) /\ Len(Fields) \in Nat /\ Len(frame) \in Nat
  BY FieldsAreFields DEF Fields
<1>2. \A i \in DOMAIN Fields : Stored(Fields[i].type) => out[Fields[i].name] = Initial(Fields[i].type)
  BY MemberOf DEF Fields
<1>3. SubSeq(frame, 1, 0) = Spelling(Fields, out, 0)
  <2>1. SubSeq(frame, 1, 0) = <<>>
    OBVIOUS
  <2>2. [i \in 1..0 |-> BytesAt(Fields, i, out)] = <<>>
    OBVIOUS
  <2>3. FlattenSeq(<<>>) = <<>>
    BY DEF FlattenSeq
  <2> QED
    BY <2>1, <2>2, <2>3 DEF Spelling
<1>4. ReadSoFar
  <2>1. \A i \in DOMAIN Fields : ~ (i < at)
    BY <1>1
  <2>2. pos \in 0 .. Len(frame) /\ ~ (at > 1) /\ 1..(at - 1) = {} /\ at - 1 = 0
    BY <1>1
  <2> QED
    BY <1>2, <1>3, <2>1, <2>2 DEF ReadSoFar
<1> QED
  BY <1>4 DEF AnyInv, AcceptedIsCarried, AcceptedIsWritten

LEMMA InitAny == Init => AnyInv
<1> SUFFICES ASSUME Init PROVE AnyInv
  OBVIOUS
<1>1. CASE phase = "write"
  BY <1>1 DEF AnyInv, ReadSoFar, AcceptedIsCarried, AcceptedIsWritten
<1>2. CASE phase = "read"
  <2>1. msg \in DOMAIN Messages /\ at = 1 /\ pos = 0 /\ out = Fresh(Fields)
    BY DEF Init
  <2>2. frame \in Seq(Octets)
    BY InitTypes DEF TypeOK
  <2> QED
    BY <1>2, <2>1, <2>2, ReaderBegins DEF Begins
<1> QED
  BY <1>1, <1>2 DEF Init

LEMMA DeliverBegins ==
  ASSUME WireInv, Deliver, frame' \in Seq(Octets)
  PROVE  AnyInv'
<1>1. /\ phase' = "read" /\ at' = 1 /\ UNCHANGED <<msg, pos, out>>
      /\ out = Fresh(Fields) /\ pos = 0
  BY DEF Deliver, WireInv, WriterInv
<1>2. Fields' = Fields /\ msg \in DOMAIN Messages
  BY <1>1 DEF Fields, WireInv, TypeOK
<1>3. Begins'
  BY <1>1, <1>2 DEF Begins
<1>4. Begins' => AnyInv'
  BY ReaderBegins, PTL
<1> QED
  BY <1>3, <1>4

LEMMA StepAny ==
  ASSUME GuardsLookBack, CarriesLookBack, CodecsAnswer, WireInv, AnyInv, [Next]_vars
  PROVE  AnyInv'
<1>1. CASE WriteField \/ Written \/ ReadFails
  <2>1. phase' \in {"write", "sent"} \/ (phase' = "done" /\ status' # "ok")
    BY <1>1, Zenon DEF WriteField, Written, ReadFails
  <2> QED
    BY <2>1 DEF AnyInv, ReadSoFar, AcceptedIsCarried, AcceptedIsWritten
<1>2. CASE Arrive \/ Cut
  <2>1. Deliver
    BY <1>2 DEF Arrive, Cut
  <2>2. frame' \in Seq(Octets)
    BY StepWire DEF WireInv, TypeOK
  <2> QED
    BY <2>1, <2>2, DeliverBegins
<1>3. CASE SkipField \/ ReadField \/ ReadEnds
  <2>1. Reader(at)
    BY <1>3 DEF SkipField, ReadField, ReadEnds, Reader
  <2> QED
    BY <1>3, <2>1, AnySkipsField, AnyReadsField, AnyReadEnds
<1>4. CASE Done \/ UNCHANGED vars
  <2>1. UNCHANGED vars
    BY <1>4 DEF Done
  <2> QED
    BY <2>1 DEF vars, AnyInv, ReadSoFar, AcceptedIsCarried, AcceptedIsWritten, Fields, Carried
<1> QED
  BY <1>1, <1>2, <1>3, <1>4 DEF Next

LEMMA AnyInvariant ==
  ASSUME GuardsLookBack, CarriesLookBack, CodecsAnswer
  PROVE  Spec => []AnyInv
<1>1. Init => WireInv /\ AnyInv
  BY InitWire, InitAny
<1>2. WireInv /\ AnyInv /\ [Next]_vars => (WireInv /\ AnyInv)'
  BY StepWire, StepAny
<1> QED
  BY <1>1, <1>2, PTL DEF Spec

\* If every guard and every count looks back, and what a field's reader makes
\* of any bytes can be carried, then whatever frame a struct's reader accepts,
\* from wherever it came, it makes of it a struct the wire can carry;
THEOREM AcceptedStructsAreCarried ==
  ASSUME GuardsLookBack, CarriesLookBack, CodecsAnswer
  PROVE  Spec => []AcceptedIsCarried
<1>1. AnyInv => AcceptedIsCarried
  BY DEF AnyInv
<1> QED
  BY <1>1, AnyInvariant, PTL

\* ... and where its fields have one spelling each, what it passed is, octet
\* for octet, what a writer of that struct puts down.
THEOREM AcceptedBytesAreWritten ==
  ASSUME GuardsLookBack, CarriesLookBack, CodecsAnswer
  PROVE  Spec => []AcceptedIsWritten
<1>1. AnyInv => AcceptedIsWritten
  BY DEF AnyInv
<1> QED
  BY <1>1, AnyInvariant, PTL

-----------------------------------------------------------------------------
\* If every guard and every count looks back, and every field's reader mirrors
\* its writer and makes of any bytes a value that can be carried, all of a
\* struct's bookkeeping (generate_serializer_definition) holds together: the
\* marks the writer leaves are where its fields end, what arrives begins as
\* what was written, and the reader, wherever its frame came from, is never
\* past what arrived and has read of it what a writer would have put down.
THEOREM WriterAndReaderKept ==
  ASSUME GuardsLookBack, CodecsMirror, CarriesLookBack, CodecsAnswer
  PROVE  Spec => []MessageInv
<1>1. WireInv /\ ReadInv /\ AnyInv => MessageInv
  BY DEF WireInv, ReadInv, AnyInv, MessageInv
<1> QED
  BY <1>1, MessageInvariant, AnyInvariant, PTL
=============================================================================
