------------------------------ MODULE Message -------------------------------
(***************************************************************************)
(* The Serializer that compiler/cpp/message.py generates for a struct: one *)
(* field after the other is written, and one after the other read into a   *)
(* fresh struct, those of one guard block under one `if`.  Writer and      *)
(* reader each decide from the struct in their hands what is on the wire.  *)
(*                                                                         *)
(* What a field's type does is left to the constant operators; module      *)
(* FieldCodec gives them the meaning of compiler/cpp/field.py.             *)
(* (A definition named X_... is X with a plausible mistake in it.)         *)
(***************************************************************************)
EXTENDS Integers, SequencesExt

CONSTANTS
  Messages,         (* the fields of each struct, a sequence of            *)
                    (* [name, type, when, block]                           *)
  Values,           (* the values of each a run may write                  *)
  Octets,           (* the bytes                                           *)
  Behind,           (* what may follow an item in a frame                  *)
  Foreign,          (* frames of any other origin                          *)
  Stored(_),        (* whether a type has a place in memory                *)
  Initial(_),       (* what that place holds at first                      *)
  Lets(_, _),       (* whether a guard lets a field of a struct through    *)
  Carries(_, _, _), (* whether a value, in a struct, can be carried        *)
  Canonical(_),     (* whether the values of a type have one spelling each *)
  Put(_, _),        (* the bytes of a value of a type                      *)
  Take(_, _, _, _)  (* a reader [status, pos, value] moved over a type, in *)
                    (* a frame, with the struct read so far                *)

VARIABLES
  msg,      (* the struct's name                                           *)
  value,    (* what is written; <<>> for a frame of another origin         *)
  wire,     (* what has been written                                       *)
  ends,     (* where in it the fields end                                  *)
  frame,    (* what arrives                                                *)
  fate,     (* how: "unsent", "whole", "cut" or "foreign"                  *)
  phase,    (* "write", "sent", "read" or "done"                           *)
  at,       (* the next field to write or read                             *)
  open,     (* whether the block at hand is entered                        *)
  pos,      (* BinaryReader.read_pos_                                      *)
  out,      (* the reader's local of that name                             *)
  status    (* what the reader returned: "ok", an error code or "none"     *)

vars == <<msg, value, wire, ends, frame, fate, phase, at, open, pos, out, status>>

Nothing == <<>>

Members(m)  == {m[i].name : i \in {j \in DOMAIN m : Stored(m[j].type)}}
TypeOf(m, n) == m[CHOOSE i \in DOMAIN m : m[i].name = n].type
Fresh(m)    == [n \in Members(m) |-> Initial(TypeOf(m, n))]

\* Names are unique, and the fields of one block share its guard.
IsMessage(m) ==
  /\ \A i, j \in DOMAIN m : m[i].name = m[j].name => i = j
  /\ \A i \in DOMAIN m : i > 1 /\ m[i].block # 0 /\ m[i].block = m[i - 1].block =>
       m[i].when = m[i - 1].when
  /\ \A i \in DOMAIN m : m[i].when = Nothing => m[i].block = 0

\* A value for each member, and for nothing else.
IsStruct(m, s) == s = [n \in Members(m) |-> s[n]]

Held(m, i, s) == IF Stored(m[i].type) THEN s[m[i].name] ELSE Nothing

ASSUME MessagesAssumption ==
  /\ DOMAIN Values = DOMAIN Messages
  /\ \A n \in DOMAIN Messages :
       /\ Messages[n] \in Seq({Messages[n][i] : i \in DOMAIN Messages[n]})
       /\ IsMessage(Messages[n])
       /\ \A s \in Values[n] : IsStruct(Messages[n], s)

ASSUME BytesAssumption ==
  /\ Behind \subseteq Seq(Octets) /\ Foreign \subseteq Seq(Octets)
  /\ \A n \in DOMAIN Messages : \A s \in Values[n] : \A i \in DOMAIN Messages[n] :
       Put(Messages[n][i].type, Held(Messages[n], i, s)) \in Seq(Octets)

\* _groups: whether a field goes on in the block that is open.
GoesOn_AnyBlock(m, i) == i > 1 /\ m[i].block # 0
GoesOn(m, i) == i > 1 /\ m[i].block # 0 /\ m[i].block = m[i - 1].block

Present(m, i, s) == m[i].when # Nothing => Lets(m[i].when, s)

\* Whether the field at hand is on the wire of s.
Enters(m, i, s, entered) == IF GoesOn(m, i) THEN entered ELSE Present(m, i, s)

Fields == Messages[msg]

-----------------------------------------------------------------------------
Init ==
  /\ msg \in DOMAIN Messages
  /\ \/ value \in Values[msg] /\ frame = <<>> /\ fate = "unsent" /\ phase = "write"
     \/ value = Nothing /\ frame \in Foreign /\ fate = "foreign" /\ phase = "read"
  /\ wire = <<>> /\ ends = <<>> /\ at = 1 /\ open = TRUE /\ pos = 0
  /\ out = Fresh(Fields)
  /\ status = "none"

WriteField_Unguarded ==
  /\ phase = "write" /\ at <= Len(Fields)
  /\ open' = TRUE
  /\ wire' = wire \o Put(Fields[at].type, Held(Fields, at, value))
  /\ ends' = Append(ends, Len(wire'))
  /\ at' = at + 1
  /\ UNCHANGED <<msg, value, frame, fate, phase, pos, out, status>>
WriteField ==
  /\ phase = "write" /\ at <= Len(Fields)
  /\ open' = Enters(Fields, at, value, open)
  /\ wire' = IF open' THEN wire \o Put(Fields[at].type, Held(Fields, at, value)) ELSE wire
  /\ ends' = Append(ends, Len(wire'))
  /\ at' = at + 1
  /\ UNCHANGED <<msg, value, frame, fate, phase, pos, out, status>>

Written ==
  /\ phase = "write" /\ at > Len(Fields)
  /\ phase' = "sent"
  /\ UNCHANGED <<msg, value, wire, ends, frame, fate, at, open, pos, out, status>>

\* The frame arrives with what follows the item, or stops short of its end.
Deliver ==
  /\ phase = "sent" /\ phase' = "read"
  /\ at' = 1 /\ open' = TRUE
  /\ UNCHANGED <<msg, value, wire, ends, pos, out, status>>

Arrive == Deliver /\ fate' = "whole" /\ \E after \in Behind : frame' = wire \o after

Cut == Deliver /\ fate' = "cut" /\ \E n \in 0 .. (Len(wire) - 1) : frame' = SubSeq(wire, 1, n)

\* What the reader makes of the field at hand.
Reading(m, i, o, f, p) ==
  Take(m[i].type, [status |-> "ok", pos |-> p, value |-> Held(m, i, o)], f, o)

Taken == Reading(Fields, at, out, frame, pos)

SkipField ==
  /\ phase = "read" /\ at <= Len(Fields)
  /\ ~ Enters(Fields, at, out, open)
  /\ open' = FALSE /\ at' = at + 1
  /\ UNCHANGED <<msg, value, wire, ends, frame, fate, phase, pos, out, status>>

ReadField ==
  /\ phase = "read" /\ at <= Len(Fields)
  /\ Enters(Fields, at, out, open)
  /\ Taken.status = "ok"
  /\ open' = TRUE /\ at' = at + 1 /\ pos' = Taken.pos
  /\ out' = IF Stored(Fields[at].type) THEN [out EXCEPT ![Fields[at].name] = Taken.value] ELSE out
  /\ UNCHANGED <<msg, value, wire, ends, frame, fate, phase, status>>

ReadFails_GoesOn ==
  /\ phase = "read" /\ at <= Len(Fields)
  /\ Enters(Fields, at, out, open)
  /\ Taken.status # "ok"
  /\ status' = Taken.status /\ pos' = Taken.pos /\ at' = at + 1
  /\ UNCHANGED <<msg, value, wire, ends, frame, fate, phase, open, out>>
ReadFails ==
  /\ phase = "read" /\ at <= Len(Fields)
  /\ Enters(Fields, at, out, open)
  /\ Taken.status # "ok"
  /\ status' = Taken.status /\ pos' = Taken.pos /\ phase' = "done"
  /\ UNCHANGED <<msg, value, wire, ends, frame, fate, at, open, out>>

ReadEnds ==
  /\ phase = "read" /\ at > Len(Fields)
  /\ status' = "ok" /\ phase' = "done"
  /\ UNCHANGED <<msg, value, wire, ends, frame, fate, at, open, pos, out>>

Done == phase = "done" /\ UNCHANGED vars

Next ==
  \/ WriteField \/ Written
  \/ Arrive \/ Cut
  \/ SkipField \/ ReadField \/ ReadFails \/ ReadEnds
  \/ Done

Spec == Init /\ [][Next]_vars

-----------------------------------------------------------------------------
\* Types of the variables.
TypeOK ==
  /\ msg \in DOMAIN Messages
  /\ wire \in Seq(Octets) /\ frame \in Seq(Octets)
  /\ ends \in Seq(Nat)
  /\ fate \in {"unsent", "whole", "cut", "foreign"}
  /\ phase \in {"write", "sent", "read", "done"}
  /\ at \in 1 .. (Len(Fields) + 1)
  /\ open \in BOOLEAN
  /\ IsStruct(Fields, out)
  /\ phase # "done" => status = "none"

\* A struct the wire can carry: every field that is there fits, and one that
\* its guard leaves out holds what a reader's fresh struct holds.
CarriedAt(m, i, s) ==
  IF Present(m, i, s) THEN Carries(m[i].type, Held(m, i, s), s)
  ELSE Stored(m[i].type) => s[m[i].name] = Initial(m[i].type)
Carried(m, s) == \A i \in DOMAIN m : CarriedAt(m, i, s)

Before(i) == IF i = 1 THEN 0 ELSE ends[i - 1]

\* Reader and writer keep in step: at every field, the reader of a struct the
\* wire can carry stands where the writer stood, holds what the writer held of
\* the fields before and nothing of those to come, and is in the same block.
InStep ==
  phase = "read" /\ fate \in {"whole", "cut"} /\ Carried(Fields, value) =>
    /\ pos = Before(at)
    /\ \A i \in DOMAIN Fields : Stored(Fields[i].type) =>
         out[Fields[i].name] = IF i < at THEN value[Fields[i].name] ELSE Initial(Fields[i].type)
    /\ at > 1 => open = Present(Fields, at - 1, value)

\* A struct the wire can carry is read back as it was, and the reader stops
\* where the writer did, whatever follows.
RoundTrip ==
  phase = "done" /\ fate = "whole" /\ Carried(Fields, value) =>
    status = "ok" /\ out = value /\ pos = Len(wire)

\* An item cut short anywhere is refused, with the stream's error.
CutRefused ==
  phase = "done" /\ fate = "cut" /\ Carried(Fields, value) => status = "message_size"

\* What a writer of s puts down for a field, and for the first n.
BytesAt(m, i, s) == IF Present(m, i, s) THEN Put(m[i].type, Held(m, i, s)) ELSE <<>>
Spelling(m, s, n) == FlattenSeq([i \in 1..n |-> BytesAt(m, i, s)])

\* Whatever bytes a reader accepts, it makes of them a struct that the wire can
\* carry: no guard, length or tag it has read admits what a writer could not
\* have meant.
AcceptedIsCarried == phase = "done" /\ status = "ok" => Carried(Fields, out)

\* Where a struct has one spelling only, what a reader accepts is what a writer
\* of the struct it returns would have written.
OneSpelling(m) == \A i \in DOMAIN m : Canonical(m[i].type)
AcceptedIsWritten ==
  phase = "done" /\ status = "ok" /\ OneSpelling(Fields) =>
    SubSeq(frame, 1, pos) = Spelling(Fields, out, Len(Fields))

-----------------------------------------------------------------------------
(* The inductive form.                                                     *)

Piece(i) == BytesAt(Fields, i, value)

\* The first n fields lie one behind the other.
Laid(n) ==
  \A i \in 1..n :
    /\ ends[i] = Before(i) + Len(Piece(i)) /\ ends[i] <= Len(wire)
    /\ \A k \in 1..Len(Piece(i)) : wire[Before(i) + k] = Piece(i)[k]

WriterInv ==
  /\ fate = "unsent" <=> phase \in {"write", "sent"}
  /\ fate = "unsent" => out = Fresh(Fields) /\ pos = 0
  /\ phase = "write" =>
       /\ Len(ends) = at - 1 /\ Len(wire) = Before(at) /\ Laid(at - 1)
       /\ at > 1 => open = Present(Fields, at - 1, value)
  /\ phase # "write" /\ fate # "foreign" =>
       Len(ends) = Len(Fields) /\ Len(wire) = Before(Len(Fields) + 1) /\ Laid(Len(Fields))

ArrivalInv ==
  /\ fate = "whole" => Len(wire) <= Len(frame)
  /\ fate = "cut" => Len(frame) < Len(wire)
  /\ fate \in {"whole", "cut"} =>
       \A k \in 1..Len(wire) : k <= Len(frame) => frame[k] = wire[k]

\* What is read has arrived.
ReaderInv ==
  phase = "read" /\ fate \in {"whole", "cut"} /\ Carried(Fields, value) => pos <= Len(frame)

\* Of whatever bytes: the fields read so far are carried, and are the bytes
\* passed so far; the others are as in a fresh struct.
ReadSoFar ==
  phase = "read" =>
    /\ pos \in 0 .. Len(frame)
    /\ \A i \in DOMAIN Fields :
         IF i < at THEN CarriedAt(Fields, i, out)
         ELSE Stored(Fields[i].type) => out[Fields[i].name] = Initial(Fields[i].type)
    /\ at > 1 => open = Present(Fields, at - 1, out)
    /\ OneSpelling(Fields) =>
         /\ \A i \in 1..(at - 1) : BytesAt(Fields, i, out) \in Seq(Octets)
         /\ SubSeq(frame, 1, pos) = Spelling(Fields, out, at - 1)

MessageInv ==
  /\ WriterInv /\ ArrivalInv /\ ReaderInv /\ InStep /\ RoundTrip /\ CutRefused
  /\ ReadSoFar /\ AcceptedIsCarried /\ AcceptedIsWritten

-----------------------------------------------------------------------------
(* What the proofs ask of the fields, of a writer's struct s and a         *)
(* reader's o that agrees with it on the fields before the i-th.           *)

Agree(m, i, s, o) ==
  \A j \in DOMAIN m : j < i /\ Stored(m[j].type) => o[m[j].name] = s[m[j].name]

\* A guard names earlier fields only ("It may only reference fields declared
\* before this one", protocol/__init__.py).
GuardsLookBack ==
  \A n \in DOMAIN Messages : \A i \in DOMAIN Messages[n] : \A s, o :
    Agree(Messages[n], i, s, o) => Present(Messages[n], i, s) = Present(Messages[n], i, o)

\* Of what a field's writer puts down, its reader makes the same value and
\* goes to its end; of the beginning of it, no value.
Mirrors(m, i, s, o, f, p) ==
  LET b == Put(m[i].type, Held(m, i, s))
      r == Reading(m, i, o, f, p)
  IN  /\ Carries(m[i].type, Held(m, i, s), s) /\ Agree(m, i, s, o)
      /\ Stored(m[i].type) => o[m[i].name] = Initial(m[i].type)
      /\ p <= Len(f)
      /\ \A k \in 1..Len(b) : p + k <= Len(f) => f[p + k] = b[k]
      => IF p + Len(b) <= Len(f)
         THEN /\ r.status = "ok" /\ r.pos = p + Len(b)
              /\ Stored(m[i].type) => r.value = s[m[i].name]
         ELSE r.status = "message_size"

\* What a reader makes of any bytes, of a field that is there, is a value the
\* struct can carry, made of bytes that are there, and where the type has one
\* spelling of the bytes a writer would put down.
Answers(m, i, o, f, p) ==
  LET r == Reading(m, i, o, f, p)
      q == IF Stored(m[i].type) THEN [o EXCEPT ![m[i].name] = r.value] ELSE o
  IN  /\ IsStruct(m, o) /\ Present(m, i, o)
      /\ \A j \in 1..(i - 1) : CarriedAt(m, j, o)
      /\ Stored(m[i].type) => o[m[i].name] = Initial(m[i].type)
      /\ p <= Len(f) /\ r.status = "ok"
      => /\ r.pos \in p .. Len(f)
         /\ Carries(m[i].type, Held(m, i, q), q)
         /\ Canonical(m[i].type) => SubSeq(f, p + 1, r.pos) = Put(m[i].type, Held(m, i, q))

\* Whether a field is carried depends on it and on earlier ones (a count=).
CarriesLookBack ==
  \A n \in DOMAIN Messages : \A i \in DOMAIN Messages[n] : \A s, o :
    Agree(Messages[n], i + 1, s, o) =>
      (Carries(Messages[n][i].type, Held(Messages[n], i, s), s)
         <=> Carries(Messages[n][i].type, Held(Messages[n], i, o), o))

CodecsAnswer ==
  \A n \in DOMAIN Messages : \A i \in DOMAIN Messages[n] :
  \A o : \A f \in Seq(Octets), p \in Nat : Answers(Messages[n], i, o, f, p)

CodecsMirror ==
  \A n \in DOMAIN Messages : \A i \in DOMAIN Messages[n] :
  \A s \in Values[n] : \A o : \A f \in Seq(Octets), p \in Nat :
    Mirrors(Messages[n], i, s, o, f, p)
=============================================================================
