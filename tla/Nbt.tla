-------------------------------- MODULE Nbt ---------------------------------
(***************************************************************************)
(* nbt.hpp: Serializer<CompoundTag> writes a tree that a client has built  *)
(* (module NbtTree), and reads it back; and it reads whatever else may     *)
(* arrive.                                                                 *)
(* (A definition named X_... is X with a plausible mistake in it.)         *)
(***************************************************************************)
EXTENDS NbtTree

CONSTANT Frames (* frames of another origin                                *)

\* A type travels as a byte.
ASSUME TypesAssumption == Compound < Base
ASSUME FramesAssumption == Frames \subseteq Seq(Byte)

VARIABLES
  frame, fate,  (* what arrives, and how: "unsent", "whole", "cut" or      *)
                (* "foreign"                                               *)
  reader        (* [status, pos, value], status "none" before it returns   *)

vars == <<root, calls, retyped, frame, fate, reader>>

-----------------------------------------------------------------------------
(* Writing.  A tag's payload is made of its parts' payloads, w.            *)

WriteNamedTag(name, type, payload) == IF type = End THEN <<End>> ELSE <<type, name>> \o payload

WriteCount(v) == WriteNumber(Len(v), I8)

\* std::map's iterators go by the order of the names.
WriteEntries(t, w) ==
  FlattenSeq([n \in 1..Base |-> IF n - 1 \in DOMAIN t.v THEN WriteNamedTag(n - 1, t.v[n - 1].type, w[n - 1])
                                ELSE <<>>])

WriteTag(t, w) ==
  CASE t.type = End      -> <<>>
    [] t.type = Value    -> <<t.v>>
    [] t.type = Bytes    -> WriteCount(t.v) \o t.v
    [] t.type = List     -> <<t.of>> \o WriteCount(t.v) \o FlattenSeq(w)
    [] t.type = Compound -> WriteEntries(t, w) \o <<End>>

\* What lies behind each reference in t, from the leaves up.
Payloads(t) ==
  LET payload[ref \in References(t)] ==
        WriteTag(Tip(t, ref), [k \in Parts(Tip(t, ref)) |-> payload[Append(ref, Step(Tip(t, ref), k))]])
  IN  payload

\* Serializer<CompoundTag>::serialize: a root without a name.
Serialize(t) == WriteNamedTag(0, t.type, Payloads(t)[<<>>])

-----------------------------------------------------------------------------
(* Reading.  Where a tag has others in it, they are read by `read`, which  *)
(* for <<type, n, p>> has what becomes of reading n payloads of a type     *)
(* from p on.                                                              *)

Start(p) == [status |-> "ok", pos |-> p, value |-> <<>>]

\* What becomes of what was read, q, unless it failed.
As(q, t) == IF q.status = "ok" THEN [q EXCEPT !.value = [t EXCEPT !.v = q.value]] ELSE q

AsBytes(q) == IF q.status = "ok" THEN [q EXCEPT !.value = Tag(Bytes, [i \in DOMAIN @ |-> @[i].v])] ELSE q

Behind(t, q) == IF q.status = "ok" THEN [q EXCEPT !.value = <<t>> \o @] ELSE q

Titled(name, q) == IF q.status = "ok" THEN [q EXCEPT !.value = [name |-> name, tag |-> @[1]]] ELSE q

\* A compound's entry before the rest of it, c: the first of a name's stays.
Entered(entry, c) == [c EXCEPT !.v = Joined(Entry(entry.name, entry.tag), @)]

Before(entry, q) == IF q.status = "ok" THEN [q EXCEPT !.value = Entered(entry, @[1])] ELSE q

\* As many tags as a count says; below zero, none.
ReadElements(type, count, read) ==
  read[<<type, IF count.value > 0 THEN count.value ELSE 0, count.pos>>]

ReadBytes(count, read) ==
  IF count.status = "ok" THEN AsBytes(ReadElements(Value, count, read)) ELSE count

ListElements_AnyType(type, count, read) ==
  IF count.status # "ok" THEN count
  ELSE IF type > Compound THEN Fail(count, "illegal_byte_sequence")
  ELSE As(ReadElements(type, count, read), ListOf(type))
ListElements_Untyped(type, count, read) ==
  IF count.status # "ok" THEN count
  ELSE IF type > Compound \/ (count.value > 0 /\ type = End) THEN Fail(count, "illegal_byte_sequence")
  ELSE As(ReadElements(type, count, read), ListOf(IF count.value > 0 THEN type ELSE End))
ListElements(type, count, read) ==
  IF count.status # "ok" THEN count
  ELSE IF type > Compound \/ (count.value > 0 /\ type = End) THEN Fail(count, "illegal_byte_sequence")
  ELSE As(ReadElements(type, count, read), ListOf(type))

ReadList(type, f, read) ==
  IF type.status = "ok" THEN ListElements(type.value, ReadNumber(type, f, I8), read) ELSE type

NamedPayload(type, name, read) ==
  IF name.status = "ok" THEN Titled(name.value, read[<<type, 1, name.pos>>]) ELSE name

\* readNamedTag; an End tag for the bare byte that ends a compound.
NamedTag(type, f, read) ==
  IF type.status # "ok" THEN type
  ELSE IF type.value = End THEN [type EXCEPT !.value = [name |-> 0, tag |-> EndTag]]
  ELSE IF type.value > Compound THEN Fail(type, "illegal_byte_sequence")
  ELSE NamedPayload(type.value, ReadNumber(type, f, U8), read)

ReadNamedTag(r, f, read) == NamedTag(ReadNumber(r, f, U8), f, read)

\* What follows an entry is read as a compound is.
ReadCompound(entry, read) ==
  IF entry.status # "ok" THEN entry
  ELSE IF entry.value.tag.type = End THEN [entry EXCEPT !.value = EmptyCompound]
  ELSE Before(entry.value, read[<<Compound, 1, entry.pos>>])

ReadTag(type, r, f, read) ==
  CASE type = End      -> [r EXCEPT !.value = EndTag]
    [] type = Value    -> As(ReadNumber(r, f, U8), Tag(Value, 0))
    [] type = Bytes    -> ReadBytes(ReadNumber(r, f, I8), read)
    [] type = List     -> ReadList(ReadNumber(r, f, U8), f, read)
    [] type = Compound -> ReadCompound(ReadNamedTag(r, f, read), read)

\* A tag of n, and those that follow it.
ReadMore(tag, type, n, read) ==
  IF tag.status = "ok" THEN Behind(tag.value, read[<<type, n - 1, tag.pos>>]) ELSE tag

ReadTags(type, n, p, f, read) ==
  IF n = 0 THEN Start(p) ELSE ReadMore(ReadTag(type, Start(p), f, read), type, n, read)

Readers(f) ==
  LET read[x \in (End .. Compound) \X Byte \X (0 .. Len(f))] == ReadTags(x[1], x[2], x[3], f, read)
  IN  read

\* Serializer<CompoundTag>::deserialize, by a reader that stands at p.
RootOf(r) ==
  IF r.status # "ok" THEN r
  ELSE IF r.value.tag.type # Compound THEN Fail(r, "illegal_byte_sequence")
  ELSE [r EXCEPT !.value = @.tag]

DeserializeAt(f, p) == RootOf(ReadNamedTag(Start(p), f, Readers(f)))

Deserialize(f) == DeserializeAt(f, 0)

-----------------------------------------------------------------------------
Init ==
  /\ Empty
  /\ \/ fate = "unsent" /\ frame = <<>>
     \/ fate = "foreign" /\ frame \in Frames
  /\ reader = [status |-> "none", pos |-> 0, value |-> <<>>]

Deliver(f, how) ==
  /\ fate = "unsent"
  /\ frame' = f /\ fate' = how
  /\ UNCHANGED <<root, calls, retyped, reader>>

Arrive == Deliver(Serialize(root), "whole")

Cut == \E n \in 0 .. (Len(Serialize(root)) - 1) : Deliver(SubSeq(Serialize(root), 1, n), "cut")

Read ==
  /\ fate # "unsent" /\ reader.status = "none"
  /\ reader' = Deserialize(frame)
  /\ UNCHANGED <<root, calls, retyped, frame, fate>>

Done == reader.status # "none" /\ UNCHANGED vars

Build == fate = "unsent" /\ Calls /\ UNCHANGED <<frame, fate, reader>>

Next == Build \/ Arrive \/ Cut \/ Read \/ Done

Spec == Init /\ [][Next]_vars

-----------------------------------------------------------------------------
\* What is uniform and gives no name an End tag is read back as it was, up to
\* its last byte, and refused with the stream's error wherever it is cut.
ReadBack ==
  reader.status # "none" /\ fate # "foreign" /\ Uniform(root) /\ Closed(root) =>
    IF fate = "whole" THEN reader = [status |-> "ok", pos |-> Len(frame), value |-> root]
    ELSE reader.status = "message_size"

\* Whatever bytes are accepted make a tree that is written and read back.
AcceptedIsStable ==
  reader.status = "ok" =>
    /\ Uniform(reader.value) /\ Closed(reader.value)
    /\ Shallow(reader.value) =>
         Deserialize(Serialize(reader.value)) = [reader EXCEPT !.pos = Len(Serialize(reader.value))]
=============================================================================
