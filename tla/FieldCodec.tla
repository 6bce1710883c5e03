----------------------------- MODULE FieldCodec -----------------------------
(***************************************************************************)
(* What the C++ that compiler/cpp/field.py generates for a field does: its *)
(* bytes, and the value a reader makes of bytes.                           *)
(*                                                                         *)
(* A field type is a record with a kind.  Values in memory: a number or an *)
(* enumerator is an integer, an optional <<>> or <<v>>, a list, a string   *)
(* or an array a sequence, a map a function on its keys, a variant         *)
(* <<case, v>>, a struct a function on the names of its members.           *)
(* (A definition named X_... is X with a plausible mistake in it.)         *)
(***************************************************************************)
EXTENDS DataStore, Bitwise

None == <<>>     (* where a member, a case's payload or a count is absent  *)

RECURSIVE Write(_, _), Read(_, _, _, _), Default(_), Fits(_, _, _), Eval(_, _)

-----------------------------------------------------------------------------
(* The expressions of when= and count=.  C++ computes as wide as a field   *)
(* or a size() that occurs in them, so that a difference below zero wraps  *)
(* when that is unsigned.                                                  *)

RECURSIVE Unsigned(_)
Unsigned(e) ==
  CASE e.op = "field" -> e.unsigned
    [] e.op = "len"   -> TRUE
    [] e.op = "int"   -> FALSE
    [] OTHER          -> \E i \in DOMAIN e.args : Unsigned(e.args[i])

Wrapped(n, e) == IF Unsigned(e) THEN n % Base ^ 2 ELSE n

Arg(e, i, s) == Eval(e.args[i], s)

Eval(e, s) ==
  CASE e.op = "field" -> s[e.name]
    [] e.op = "int"   -> e.n
    [] e.op = "len"   -> Cardinality(DOMAIN s[e.name])
    [] e.op = "not"   -> ~ Arg(e, 1, s)
    [] e.op = "and"   -> Arg(e, 1, s) /\ Arg(e, 2, s)
    [] e.op = "or"    -> Arg(e, 1, s) \/ Arg(e, 2, s)
    [] e.op = "=="    -> Arg(e, 1, s) = Arg(e, 2, s)
    [] e.op = "<"     -> Arg(e, 1, s) < Arg(e, 2, s)
    [] e.op = "&"     -> Arg(e, 1, s) & Arg(e, 2, s)
    [] e.op = "*"     -> Wrapped(Arg(e, 1, s) * Arg(e, 2, s), e)
    [] e.op = "-"     -> Wrapped(Arg(e, 1, s) - Arg(e, 2, s), e)

Rounds(n) == IF n > 0 THEN n ELSE 0

-----------------------------------------------------------------------------
(* Structs.  A field is [name, type, when, block]: when is None for one    *)
(* that is always there, block 0 outside a `with field(when=...)` block.   *)
(* A block's guard names fields before the block only.                     *)

HasMember(t) == t.kind # "literal"

IsThere(x, s) == x.when # None => Eval(x.when, s)

HeldBy(x, s) == IF HasMember(x.type) THEN s[x.name] ELSE None

DefaultStruct(fields) ==
  FoldLeft(LAMBDA s, x : IF HasMember(x.type) THEN s @@ (x.name :> Default(x.type)) ELSE s, None, fields)

WriteStruct(fields, s) ==
  FlattenSeq([i \in DOMAIN fields |->
    IF IsThere(fields[i], s) THEN Write(fields[i].type, HeldBy(fields[i], s)) ELSE <<>>])

\* Reads one field into q.value, the struct read so far: the code's `out`.
ReadMember(x, q, f) ==
  LET r == Read(x.type, [q EXCEPT !.value = HeldBy(x, q.value)], f, q.value)
  IN  [r EXCEPT !.value = IF HasMember(x.type) THEN [q.value EXCEPT ![x.name] = r.value] ELSE q.value]

ReadStruct(fields, r, f) ==
  FoldLeft(LAMBDA q, x : IF q.status = "ok" /\ IsThere(x, q.value) THEN ReadMember(x, q, f) ELSE q,
           [r EXCEPT !.value = DefaultStruct(fields)], fields)

-----------------------------------------------------------------------------
(* Writing.                                                                *)

WriteEach(t, vs) == FlattenSeq([i \in DOMAIN vs |-> Write(t, vs[i])])

\* stream.write(enum_name(value)): the empty name for a value that has none.
\* A name is one byte here, the empty name 0; t.spells maps every spelling that
\* enum_cast takes to its enumerator, whose own name is the number of it.
Named(t) == {t.spells[n] : n \in DOMAIN t.spells}

WriteName_Skipped(t, v) == IF v \in Named(t) THEN <<v>> ELSE <<>>
WriteName(t, v) == IF v \in Named(t) THEN <<v>> ELSE <<0>>

WriteList(t, v) ==
  (IF t.count = None THEN WriteNumber(Len(v), t.prefix) ELSE <<>>) \o WriteEach(t.inner, v)

WriteMap(t, m) ==
  WriteNumber(Cardinality(DOMAIN m), t.prefix) \o
  FlattenSeq([i \in DOMAIN Keys(m) |-> Write(t.key, Keys(m)[i]) \o Write(t.inner, m[Keys(m)[i]])])

WriteVariant(t, v) ==
  WriteNumber(v[1] - 1, t.tag) \o
  (IF t.cases[v[1]] = None THEN <<>> ELSE Write(t.cases[v[1]], v[2]))

Write(t, v) ==
  CASE t.kind = "number"   -> WriteNumber(v, t.wire)
    [] t.kind = "enum"     -> WriteName(t, v)
    [] t.kind = "literal"  -> WriteNumber(t.values[1], t.wire)
    [] t.kind = "optional" -> IF v = <<>> THEN <<0>> ELSE <<1>> \o Write(t.inner, v[1])
    [] t.kind = "list"     -> WriteList(t, v)
    [] t.kind = "array"    -> WriteEach(t.inner, v)
    [] t.kind = "map"      -> WriteMap(t, v)
    [] t.kind = "variant"  -> WriteVariant(t, v)
    [] t.kind = "struct"   -> WriteStruct(t.fields, v)
    [] t.kind = "dynamic"  -> WriteValue(v, t.tag)

-----------------------------------------------------------------------------
(* Reading.  s is the surrounding struct, as far as it has been read.      *)

\* T{}
Default(t) ==
  CASE t.kind \in {"number", "enum"}            -> 0
    [] t.kind \in {"optional", "list", "map"}   -> <<>>
    [] t.kind = "array"   -> [i \in 1..t.size |-> Default(t.inner)]
    [] t.kind = "variant" -> <<1, IF t.cases[1] = None THEN None ELSE Default(t.cases[1])>>
    [] t.kind = "struct"  -> DefaultStruct(t.fields)
    [] t.kind = "dynamic" -> NullValue

ReadName(t, r, f) ==
  LET q == ReadNumber(r, f, U8)
  IN  IF q.status # "ok" THEN q
      ELSE IF q.value \notin DOMAIN t.spells THEN Fail(q, "illegal_byte_sequence")
      ELSE [q EXCEPT !.value = t.spells[@]]

ReadLiteral_AnyValue(t, r, f) == ReadNumber(r, f, t.wire)
ReadLiteral(t, r, f) ==
  LET q == ReadNumber(r, f, t.wire)
  IN  IF q.status = "ok" /\ \A i \in DOMAIN t.values : q.value # t.values[i]
      THEN Fail(q, "illegal_byte_sequence") ELSE q

\* The payload is read into `staged` and moved in.  Where it is itself an
\* optional, the inner block has a `staged` of its own, and moves that into
\* itself: the outer one keeps its T{}.  (With a list, array or map between
\* the two optionals the code does not compile.)
ReadOptional(t, r, f, s) ==
  LET flag == ReadNumber(r, f, U8)
      q    == Read(t.inner, [flag EXCEPT !.value = Default(t.inner)], f, s)
  IN  IF flag.status # "ok" THEN flag
      ELSE IF flag.value = 0 THEN [flag EXCEPT !.value = r.value]
      ELSE [q EXCEPT !.value = <<IF t.inner.kind = "optional" THEN None ELSE q.value>>]

\* As many elements as r.value has places, each into its place.
ReadEach(t, r, f, s) ==
  FoldLeftDomain(LAMBDA q, i :
      LET e == Read(t, [q EXCEPT !.value = q.value[i]], f, s)
      IN  IF q.status = "ok" THEN [e EXCEPT !.value = [q.value EXCEPT ![i] = e.value]] ELSE q,
    r, r.value)

Places(t, n) == [i \in 1..Rounds(n) |-> Default(t)]

ReadList(t, r, f, s) ==
  LET len == IF t.count = None THEN ReadNumber(r, f, t.prefix) ELSE [r EXCEPT !.value = Eval(t.count, s)]
  IN  IF len.status # "ok" THEN len
      ELSE ReadEach(t.inner, [len EXCEPT !.value = Places(t.inner, len.value)], f, s)

\* Whether the code that reads v evaluates its target: an optional that is
\* absent leaves its own alone.
RECURSIVE Assigned(_, _)
Assigned(t, v) ==
  CASE t.kind = "optional" -> v # None
    [] t.kind = "array"    -> \E i \in DOMAIN v : Assigned(t.inner, v[i])
    [] OTHER               -> TRUE

\* The value's target is the text target[key], which inserts the key where it
\* is evaluated, and holds what it held before if the key is there already.
ReadPair(t, q, f, s) ==
  LET k   == Read(t.key, [q EXCEPT !.value = Default(t.key)], f, s)
      old == IF k.value \in DOMAIN q.value THEN q.value[k.value] ELSE Default(t.inner)
      v   == Read(t.inner, [k EXCEPT !.value = old], f, s)
  IN  IF k.status # "ok" THEN k
      ELSE [v EXCEPT !.value = IF Assigned(t.inner, v.value) THEN (k.value :> v.value) @@ q.value ELSE q.value]

ReadMap(t, r, f, s) ==
  LET len == ReadNumber(r, f, t.prefix)
  IN  IF len.status # "ok" THEN len
      ELSE FoldLeft(LAMBDA q, i : IF q.status = "ok" THEN ReadPair(t, q, f, s) ELSE q,
                    [len EXCEPT !.value = <<>>], [i \in 1..Rounds(len.value) |-> i])

ReadVariant(t, r, f, s) ==
  LET tag  == ReadNumber(r, f, t.tag)
      case == tag.value + 1
      alt  == IF t.cases[case] = None THEN [tag EXCEPT !.value = None]
              ELSE Read(t.cases[case], [tag EXCEPT !.value = Default(t.cases[case])], f, s)
  IN  IF tag.status # "ok" THEN tag
      ELSE IF case \notin DOMAIN t.cases THEN Fail(tag, "illegal_byte_sequence")
      ELSE [alt EXCEPT !.value = <<case, alt.value>>]

ReadScalar_Wide(t, r, f) == ReadNumber(r, f, t.wire)
ReadScalar(t, r, f) ==
  LET q == ReadNumber(r, f, t.wire)
  IN  IF q.status = "ok" THEN [q EXCEPT !.value = Cast(@, t.memory)] ELSE q

Read(t, r, f, s) ==
  CASE t.kind = "number"   -> ReadScalar(t, r, f)
    [] t.kind = "enum"     -> ReadName(t, r, f)
    [] t.kind = "literal"  -> ReadLiteral(t, r, f)
    [] t.kind = "optional" -> ReadOptional(t, r, f, s)
    [] t.kind = "list"     -> ReadList(t, r, f, s)
    [] t.kind = "array"    -> ReadEach(t.inner, r, f, s)
    [] t.kind = "map"      -> ReadMap(t, r, f, s)
    [] t.kind = "variant"  -> ReadVariant(t, r, f, s)
    [] t.kind = "struct"   -> ReadStruct(t.fields, r, f)
    [] t.kind = "dynamic"  -> ReadValue(r, f, t.tag)

-----------------------------------------------------------------------------
(* What the wire can carry of a type, of a struct s: what a writer may be  *)
(* given for a reader to return it.  None of it is checked by the code.    *)

FitsStruct(fields, s) ==
  \A i \in DOMAIN fields :
    IF IsThere(fields[i], s) THEN Fits(fields[i].type, HeldBy(fields[i], s), s)
    ELSE HasMember(fields[i].type) => s[fields[i].name] = Default(fields[i].type)

Fits(t, v, s) ==
  CASE t.kind = "number"   -> Cast(Cast(v, t.wire), t.memory) = v
    [] t.kind = "enum"     -> v \in Named(t)
    [] t.kind = "literal"  -> TRUE
    [] t.kind = "optional" -> v # <<>> => Fits(t.inner, v[1], s)
    [] t.kind = "list"     ->
         /\ IF t.count = None THEN Cast(Len(v), t.prefix) = Len(v) ELSE Len(v) = Rounds(Eval(t.count, s))
         /\ \A i \in DOMAIN v : Fits(t.inner, v[i], s)
    [] t.kind = "array"    -> Len(v) = t.size /\ \A i \in DOMAIN v : Fits(t.inner, v[i], s)
    [] t.kind = "map"      ->
         /\ Cast(Cardinality(DOMAIN v), t.prefix) = Cardinality(DOMAIN v)
         /\ \A k \in DOMAIN v : Fits(t.key, k, s) /\ Fits(t.inner, v[k], s)
    [] t.kind = "variant"  ->
         /\ v[1] \in DOMAIN t.cases /\ Cast(v[1] - 1, t.tag) = v[1] - 1
         /\ t.cases[v[1]] # None => Fits(t.cases[v[1]], v[2], s)
    [] t.kind = "struct"   -> FitsStruct(t.fields, v)
    [] t.kind = "dynamic"  -> FitsValue(v)
=============================================================================
