----------------------------- MODULE DataStore ------------------------------
(***************************************************************************)
(* The hand-written codec of data_store.hpp: a DynamicValue, [type, v], is *)
(* null, a scalar, an array of them or an object from keys to them.  The   *)
(* scalars and the keys are a byte each.                                   *)
(***************************************************************************)
EXTENDS Primitives

NullType == 0
ScalarType == 1
ArrayType == 2
ObjectType == 3

NullValue == [type |-> NullType, v |-> <<>>]

RECURSIVE WriteValue(_, _), ReadValue(_, _, _), FitsValue(_)

Keys(m) == SetToSortSeq(DOMAIN m, <)

\* w is the wire type of the type tag.
WriteValue(d, w) ==
  WriteNumber(d.type, w) \o
  CASE d.type = NullType   -> <<>>
    [] d.type = ScalarType -> WriteNumber(d.v, U8)
    [] d.type = ArrayType  ->
         WriteNumber(Len(d.v), U8) \o FlattenSeq([i \in DOMAIN d.v |-> WriteValue(d.v[i], w)])
    [] d.type = ObjectType ->
         WriteNumber(Cardinality(DOMAIN d.v), U8) \o
         FlattenSeq([i \in DOMAIN Keys(d.v) |-> <<Keys(d.v)[i]>> \o WriteValue(d.v[Keys(d.v)[i]], w)])

\* One round of the reader's loops; q.value is what they have so far.
ReadElement(q, f, w) ==
  LET e == ReadValue(q, f, w)
  IN  IF e.status = "ok" THEN [e EXCEPT !.value = Append(q.value, @)] ELSE e

\* emplace: the first of a key's values stays.
ReadEntry(q, f, w) ==
  LET key == ReadNumber(q, f, U8)
      e   == ReadValue(key, f, w)
  IN  IF key.status # "ok" THEN key
      ELSE IF e.status # "ok" THEN e ELSE [e EXCEPT !.value = q.value @@ (key.value :> @)]

ReadCounted(r, f, w, entries) ==
  LET count == ReadNumber(r, f, U8)
  IN  IF count.status # "ok" THEN count
      ELSE FoldLeft(LAMBDA q, i : IF q.status # "ok" THEN q
                                  ELSE IF entries THEN ReadEntry(q, f, w) ELSE ReadElement(q, f, w),
                    [count EXCEPT !.value = <<>>], [i \in 1..count.value |-> i])

ReadPayload(tag, f, w) ==
  CASE tag.value = NullType   -> [tag EXCEPT !.value = <<>>]
    [] tag.value = ScalarType -> ReadNumber(tag, f, U8)
    [] tag.value = ArrayType  -> ReadCounted(tag, f, w, FALSE)
    [] tag.value = ObjectType -> ReadCounted(tag, f, w, TRUE)
    [] OTHER                  -> Fail(tag, "illegal_byte_sequence")

ReadValue(r, f, w) ==
  LET tag == ReadNumber(r, f, w)
      q   == ReadPayload(tag, f, w)
  IN  IF tag.status # "ok" THEN tag
      ELSE IF q.status # "ok" THEN q ELSE [q EXCEPT !.value = [type |-> tag.value, v |-> @]]

\* Sizes the prefix can count; nothing checks them.
FitsValue(d) ==
  d.type \in {ArrayType, ObjectType} =>
    /\ Cardinality(DOMAIN d.v) < Capacity(U8)
    /\ \A i \in DOMAIN d.v : FitsValue(d.v[i])
=============================================================================
