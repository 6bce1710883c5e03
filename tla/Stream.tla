------------------------------- MODULE Stream -------------------------------
(***************************************************************************)
(* The base-128 forms of include/bedrock/protocol: stream.hpp's varints,   *)
(* zigzag-coded for a signed type, and detail/bitset.hpp's bitset dump.    *)
(* One item is written after what a buffer already holds and read back     *)
(* from where it starts, or bytes of another origin are read as one.       *)
(*                                                                         *)
(* A word is the set of its one bits' positions.  A byte on the wire is    *)
(* [bits : SUBSET (0..6), more : BOOLEAN], more being its top bit.  (A     *)
(* definition named X_... is X with a plausible mistake in it.)            *)
(***************************************************************************)
EXTENDS Integers, Sequences

CONSTANTS
  Bits,     (* sizeof(T) * 8, of writeVarInt<T> and readVarInt<T>          *)
  Size,     (* N, of Serializer<std::bitset<N>>                            *)
  Words,    (* the values of T a run may write                             *)
  Flags,    (* the bitsets a run may write                                 *)
  Frames,   (* what a buffer may hold before and after the item            *)
  Foreign   (* other buffers a run may read from their beginning           *)

Byte == [bits : SUBSET (0..6), more : BOOLEAN]

ASSUME SizesAssumption  == Bits \in Nat \ {0} /\ Size \in Nat \ {0}
ASSUME ValuesAssumption == Words \subseteq SUBSET (0..Bits-1) /\ Flags \subseteq SUBSET (0..Size-1)
ASSUME BytesAssumption  == Frames \subseteq Seq(Byte) /\ Foreign \subseteq Seq(Byte)

VARIABLES
  kind,     (* "unsigned", "signed" or "bitset"                            *)
  value,    (* what is written; {} when the bytes are of another origin    *)
  wire,     (* the buffer                                                  *)
  start,    (* how much of it came before the item                         *)
  sent,     (* its length when the writer had finished                     *)
  fate,     (* how it arrived: "unsent", "whole", "cut" or "foreign"       *)
  phase,    (* "scan", "write", "sent", "read" or "done"                   *)
  bits,     (* writeVarInt: its local of that name                         *)
  top,      (* the bitset's writer: i + 1, and then its local of that name *)
  g,        (* the group a loop has come to: the code's g, or readVarInt's n *)
  pos,      (* BinaryReader.read_pos_                                      *)
  acc,      (* the readers' value, or out                                  *)
  status    (* what the reader returned: "ok", an error code or "none"     *)

vars   == <<kind, value, wire, start, sent, fate, phase, bits, top, g, pos, acc, status>>
writer == <<kind, value, start, sent, fate, bits, top>>

Kinds    == {"unsigned", "signed", "bitset"}
Width    == IF kind = "bitset" THEN Size ELSE Bits
MaxBytes == (Width + 6) \div 7

-----------------------------------------------------------------------------
(* Words.                                                                  *)

Low(w)   == w \cap (0..6)
Shift(w) == {b - 7 : b \in {c \in w : c >= 7}}

\* (value >> kShift) ^ (value << 1), where kShift copies the sign everywhere.
Doubled(w) == {b + 1 : b \in w \ {Bits-1}}
ZigZag(w)  == IF Bits-1 \in w THEN (0..Bits-1) \ Doubled(w) ELSE Doubled(w)

\* (value >> 1) ^ -(value & 1)
Halved(u)   == {b - 1 : b \in u \ {0}}
UnZigZag(u) == IF 0 \in u THEN (0..Bits-1) \ Halved(u) ELSE Halved(u)

\* What a writer of the kind dumps, seven bits a byte.
Dumped == IF kind = "signed" THEN ZigZag(value) ELSE value

\* What a reader of the kind returns.
Returned == IF kind = "signed" THEN UnZigZag(acc) ELSE acc

-----------------------------------------------------------------------------
InitWrite ==
  /\ \/ kind \in {"unsigned", "signed"} /\ value \in Words /\ phase = "write"
     \/ kind = "bitset" /\ value \in Flags /\ phase = "scan"
  /\ wire \in Frames
  /\ fate = "unsent"
  /\ bits = IF kind = "bitset" THEN {} ELSE Dumped

InitForeign ==
  /\ kind \in Kinds /\ value = {}
  /\ wire \in Foreign
  /\ fate = "foreign" /\ phase = "read"
  /\ bits = {}

Init ==
  /\ InitWrite \/ InitForeign
  /\ start = IF fate = "unsent" THEN Len(wire) ELSE 0
  /\ sent = Len(wire)
  /\ top = IF phase = "scan" THEN Size ELSE 0
  /\ g = 0 /\ pos = 0 /\ acc = {} /\ status = "none"

-----------------------------------------------------------------------------
(* Writing.                                                                *)

\* One round of writeVarInt's do-while.
WriteGroup_Counted ==
  /\ phase = "write" /\ kind # "bitset"
  /\ wire' = Append(wire, [bits |-> Low(bits), more |-> Len(wire) - start + 1 < MaxBytes])
  /\ bits' = Shift(bits)
  /\ phase' = IF Len(wire) - start + 1 < MaxBytes THEN "write" ELSE "sent"
  /\ sent' = Len(wire')
  /\ UNCHANGED <<kind, value, start, fate, top, g, pos, acc, status>>
WriteGroup ==
  /\ phase = "write" /\ kind # "bitset"
  /\ wire' = Append(wire, [bits |-> Low(bits), more |-> Shift(bits) # {}])
  /\ bits' = Shift(bits)
  /\ phase' = IF Shift(bits) # {} THEN "write" ELSE "sent"
  /\ sent' = Len(wire')
  /\ UNCHANGED <<kind, value, start, fate, top, g, pos, acc, status>>

\* The bitset's search for its highest bit.
SkipZero ==
  /\ phase = "scan" /\ top > 0 /\ top - 1 \notin value
  /\ top' = top - 1
  /\ UNCHANGED <<kind, value, wire, start, sent, fate, phase, bits, g, pos, acc, status>>

BeginDump ==
  /\ phase = "scan" /\ (top = 0 \/ top - 1 \in value)
  /\ phase' = "write"
  /\ UNCHANGED <<kind, value, wire, start, sent, fate, bits, top, g, pos, acc, status>>

Groups_Short == IF top = 0 THEN 1 ELSE (top + 5) \div 7
Groups == IF top = 0 THEN 1 ELSE (top + 6) \div 7

\* One round of the bitset's loop over groups.
DumpGroup ==
  /\ phase = "write" /\ kind = "bitset"
  /\ wire' = Append(wire, [bits |-> {k \in 0..6 : g * 7 + k < Size /\ g * 7 + k \in value},
                           more |-> g + 1 < Groups])
  /\ g' = g + 1
  /\ phase' = IF g + 1 < Groups THEN "write" ELSE "sent"
  /\ sent' = Len(wire')
  /\ UNCHANGED <<kind, value, start, fate, bits, top, pos, acc, status>>

-----------------------------------------------------------------------------
(* Between the two ends: the frame the item is in arrives, with whatever   *)
(* follows the item, or what arrives stops short of its end.               *)

Deliver ==
  /\ phase' = "read" /\ pos' = start /\ g' = 0
  /\ UNCHANGED <<kind, value, start, sent, bits, top, acc, status>>

Arrive ==
  /\ phase = "sent" /\ Deliver
  /\ fate' = "whole"
  /\ \E after \in Frames : wire' = wire \o after

Cut ==
  /\ phase = "sent" /\ Deliver
  /\ fate' = "cut"
  /\ \E n \in start .. (sent - 1) : wire' = SubSeq(wire, 1, n)

-----------------------------------------------------------------------------
(* Reading.                                                                *)

Return(code) ==
  /\ phase' = "done" /\ status' = code

\* BinaryReader::read(&b, 1)
InBounds == pos + 1 <= Len(wire)
Current  == wire[pos + 1]

\* The bits of a byte at the place of group g.
Placed == {7 * g + k : k \in Current.bits}

\* A byte that is not there ends either loop.
ReadPastEnd_AsZero ==
  /\ phase = "read" /\ ~ InBounds
  /\ kind # "bitset" => g < MaxBytes
  /\ Return("ok")
  /\ UNCHANGED <<writer, wire, g, pos, acc>>
ReadPastEnd ==
  /\ phase = "read" /\ ~ InBounds
  /\ kind # "bitset" => g < MaxBytes
  /\ Return("message_size")
  /\ UNCHANGED <<writer, wire, g, pos, acc>>

\* One round of readVarInt's loop: shifting into U drops what is beyond it.
ReadGroup_Wide ==
  /\ phase = "read" /\ kind # "bitset"
  /\ g < MaxBytes /\ InBounds
  /\ pos' = pos + 1
  /\ acc' = acc \cup Placed
  /\ IF Current.more THEN g' = g + 1 /\ UNCHANGED <<phase, status>>
                     ELSE Return("ok") /\ UNCHANGED g
  /\ UNCHANGED <<writer, wire>>
ReadGroup ==
  /\ phase = "read" /\ kind # "bitset"
  /\ g < MaxBytes /\ InBounds
  /\ pos' = pos + 1
  /\ acc' = acc \cup (Placed \cap (0..Bits-1))
  /\ IF Current.more THEN g' = g + 1 /\ UNCHANGED <<phase, status>>
                     ELSE Return("ok") /\ UNCHANGED g
  /\ UNCHANGED <<writer, wire>>

ReadTooLong ==
  /\ phase = "read" /\ kind # "bitset"
  /\ g = MaxBytes
  /\ Return("value_too_large")
  /\ UNCHANGED <<writer, wire, g, pos, acc>>

\* One round of the bitset reader's loop: a bit it has no place for ...
RefuseBit ==
  /\ phase = "read" /\ kind = "bitset" /\ InBounds
  /\ ~ Placed \subseteq 0..(Size-1)
  /\ pos' = pos + 1
  /\ Return("value_too_large")
  /\ UNCHANGED <<writer, wire, g, acc>>

\* ... the last byte, one more to come, or one more than the width allows.
LoadGroup_Unchecked ==
  /\ phase = "read" /\ kind = "bitset" /\ InBounds
  /\ pos' = pos + 1
  /\ acc' = acc \cup (Placed \cap (0..Size-1))
  /\ IF ~ Current.more THEN Return("ok") /\ UNCHANGED g
     ELSE IF (g + 1) * 7 >= Size THEN Return("value_too_large") /\ UNCHANGED g
     ELSE g' = g + 1 /\ UNCHANGED <<phase, status>>
  /\ UNCHANGED <<writer, wire>>
LoadGroup ==
  /\ phase = "read" /\ kind = "bitset" /\ InBounds
  /\ Placed \subseteq 0..(Size-1)
  /\ pos' = pos + 1
  /\ acc' = acc \cup Placed
  /\ IF ~ Current.more THEN Return("ok") /\ UNCHANGED g
     ELSE IF (g + 1) * 7 >= Size THEN Return("value_too_large") /\ UNCHANGED g
     ELSE g' = g + 1 /\ UNCHANGED <<phase, status>>
  /\ UNCHANGED <<writer, wire>>

Done == phase = "done" /\ UNCHANGED vars

Next ==
  \/ WriteGroup \/ SkipZero \/ BeginDump \/ DumpGroup
  \/ Arrive \/ Cut
  \/ ReadPastEnd \/ ReadGroup \/ ReadTooLong \/ RefuseBit \/ LoadGroup
  \/ Done

Spec == Init /\ [][Next]_vars

-----------------------------------------------------------------------------
\* Types of the variables.
TypeOK ==
  /\ kind \in Kinds
  /\ value \subseteq 0..(Width-1)
  /\ wire \in Seq(Byte)
  /\ start \in Nat /\ sent \in Nat /\ pos \in Nat /\ g \in Nat
  /\ fate \in {"unsent", "whole", "cut", "foreign"}
  /\ phase \in {"scan", "write", "sent", "read", "done"}
  /\ fate = "unsent" <=> phase \in {"scan", "write", "sent"}
  /\ fate = "unsent" => sent = Len(wire)
  /\ bits \subseteq 0..(Bits-1)
  /\ top \in 0..Size
  /\ acc \subseteq 0..(Width-1)
  /\ status \in {"none", "ok", "message_size", "value_too_large"}
  /\ status = "none" <=> phase # "done"

\* The bits of the n bytes of w that follow its first s, at the places of
\* their groups, and whether each of the n says that another follows.
Denoted(w, s, n) ==
  {b \in 0..(7 * n - 1) : \E i \in 0..(n - 1) : \E k \in w[s + i + 1].bits : b = 7 * i + k}

Continued(w, s, n) == \A i \in 0..(n - 1) : w[s + i + 1].more

\* The ith byte of a dump of w.
Emitted(w, i) ==
  [bits |-> {k \in 0..6 : 7 * i + k \in w}, more |-> \E b \in w : b >= 7 * (i + 1)]

\* What a reader answers, from the bytes alone: a value when some byte within
\* MaxBytes is the last, message_size when the bytes run out before that, and
\* value_too_large when MaxBytes of them go on.  Bits beyond the width are
\* dropped by a varint and refused by a bitset ("accepting it would drop
\* information silently", detail/bitset.hpp).
ReadContract ==
  phase = "done" =>
    LET n == pos - start
        fits == Denoted(wire, start, n) \subseteq 0..(Width-1)
    IN  /\ n \in 0..MaxBytes /\ pos <= Len(wire)
        /\ status = "ok" =>
             /\ n > 0 /\ Continued(wire, start, n - 1) /\ ~ wire[start + n].more
             /\ acc = Denoted(wire, start, n) \cap (0..(Width-1))
             /\ kind = "bitset" => fits
        /\ status = "message_size" =>
             pos = Len(wire) /\ n < MaxBytes /\ Continued(wire, start, n) /\ (kind = "bitset" => fits)
        /\ status = "value_too_large" =>
             \/ n = MaxBytes /\ Continued(wire, start, n)
             \/ kind = "bitset" /\ n > 0 /\ Continued(wire, start, n - 1) /\ ~ fits

\* What the writing loops keep true: the bytes so far are the first of the
\* dump, and another follows just when a bit is left.
WriterInv ==
  /\ start <= Len(wire)
  /\ fate = "foreign" => start = 0
  /\ fate = "unsent" => acc = {} /\ start <= sent
  /\ phase = "scan" =>
       /\ kind = "bitset" /\ g = 0 /\ Len(wire) = start
       /\ \A b \in value : b < top
  /\ phase = "write" =>
       LET n == Len(wire) - start
       IN  /\ \A i \in 0..(n - 1) : wire[start + i + 1] = Emitted(Dumped, i)
           /\ n > 0 => \E b \in Dumped : b >= 7 * n
           /\ kind # "bitset" => bits = {b - 7 * n : b \in {c \in Dumped : c >= 7 * n}}
           /\ kind = "bitset" =>
                g = n /\ (\A b \in value : b < top) /\ (top > 0 => top - 1 \in value)

\* What arrives is the dump, or the beginning of it.
ArrivalInv ==
  phase = "sent" \/ fate \in {"whole", "cut"} =>
    LET n == sent - start
    IN  /\ n > 0
        /\ n > 1 => \E b \in Dumped : b >= 7 * (n - 1)
        /\ \A b \in Dumped : b < 7 * n
        /\ \A i \in 0..(n - 1) : start + i + 1 <= Len(wire) => wire[start + i + 1] = Emitted(Dumped, i)
        /\ phase = "sent" => Len(wire) = sent
        /\ fate = "whole" => sent <= Len(wire)
        /\ fate = "cut" => Len(wire) < sent

\* What the reading loops keep true.
ReaderInv ==
  phase = "read" =>
    /\ pos = start + g /\ pos <= Len(wire) /\ g <= MaxBytes
    /\ Continued(wire, start, g)
    /\ acc = Denoted(wire, start, g) \cap (0..(Width-1))
    /\ kind = "bitset" => g < MaxBytes /\ Denoted(wire, start, g) \subseteq 0..(Width-1)

\* The inductive form of the properties below.
StreamInv == WriterInv /\ ArrivalInv /\ ReaderInv /\ ReadContract

\* An item that arrives whole is read as the value that was written, and the
\* reader stops at its last byte, whatever follows it (writeVarInt and
\* readVarInt, the two halves of Serializer<std::bitset<N>>).
RoundTrip == phase = "done" /\ fate = "whole" => status = "ok" /\ Returned = value /\ pos = sent

\* An item that is cut short anywhere is never taken for a shorter one.
CutRefused == phase = "done" /\ fate = "cut" => status = "message_size"

\* An item takes no more bytes than it needs: its last byte is not a group of
\* zeros unless it is the only one, and a reader of the kind allows for it.
Shortest ==
  phase = "sent" =>
    /\ sent - start \in 1..MaxBytes
    /\ sent - start > 1 => wire[sent].bits # {}
=============================================================================
