----------------------------- MODULE MCMessage ------------------------------
(***************************************************************************)
(* Small messages for TLC, with the field codecs of module FieldCodec: one *)
(* per thing that can go wrong between a writer and a reader.              *)
(***************************************************************************)
EXTENDS Message, FieldCodec

CONSTANTS
  MaxLen,       (* of the lists in the values                              *)
  MaxFrame      (* of the frames of another origin                         *)

IntOf(n, signed) == [bytes |-> n, signed |-> signed, big |-> FALSE]
U16 == IntOf(2, FALSE)
B16 == [U16 EXCEPT !.big = TRUE]

Num(m, w)        == [kind |-> "number", memory |-> m, wire |-> w]
Octet            == Num(U8, U8)
Enum(spellings)  == [kind |-> "enum", spells |-> spellings]
Literal(vs)      == [kind |-> "literal", values |-> vs, wire |-> U8]
Optional(t)      == [kind |-> "optional", inner |-> t]
List(t, p)       == [kind |-> "list", inner |-> t, prefix |-> p, count |-> None]
Counted(t, c)    == [kind |-> "list", inner |-> t, prefix |-> U8, count |-> c]
Array(t, n)      == [kind |-> "array", inner |-> t, size |-> n]
Map(k, t)        == [kind |-> "map", key |-> k, inner |-> t, prefix |-> U8]
Variant(cs)      == [kind |-> "variant", cases |-> cs, tag |-> U8]
Struct(fs)       == [kind |-> "struct", fields |-> fs]
Dynamic          == [kind |-> "dynamic", tag |-> U16]

Field(n, t)         == [name |-> n, type |-> t, when |-> None, block |-> 0]
When(e, n, t)       == [Field(n, t) EXCEPT !.when = e]
Block(b, e, n, t)   == [When(e, n, t) EXCEPT !.block = b]

Of(n)            == [op |-> "field", name |-> n, unsigned |-> FALSE]
Lit(k)           == [op |-> "int", n |-> k]
LenOf(n)         == [op |-> "len", name |-> n]
Op(o, a, b)      == [op |-> o, args |-> <<a, b>>]
Bit(n, k)        == [op |-> "not", args |-> <<Op("==", Op("&", Of(n), Lit(k)), Lit(0))>>]

\* Guards: a block, a block after it, and a field under a field of the first.
Gated == <<Field("flags", Octet),
           Block(1, Bit("flags", 1), "x", Octet),
           Block(1, Bit("flags", 1), "o", Optional(Octet)),
           Block(2, Bit("flags", 2), "k", Literal(<<1, 2>>)),
           When(Op("==", Of("x"), Lit(2)), "y", Octet)>>

\* Lengths that are computed: a product, and a difference that may wrap.
Shaped == <<Field("width", Octet), Field("height", Octet),
            Field("grid", Counted(Octet, Op("*", Of("width"), Of("height")))),
            Field("rest", Optional(Counted(Enum(1 :> 1), Op("-", LenOf("grid"), Of("height")))))>>

\* A signed prefix, elements that are not of one size; a name, which may be
\* spelled in two cases, and a number after it.
Listed == <<Field("xs", List(Optional(Octet), I8)),
            Field("name", Enum(1 :> 1 @@ 2 :> 1 @@ 3 :> 3)), Field("end", Octet)>>

\* Keys that come twice, over values that need not be there.
Mapped == <<Field("m", Map(Octet, Optional(Octet))), Field("end", Octet)>>

\* Cases: a number, nothing, and a struct with a guard of its own; a constant
\* behind it.
Tagged == <<Field("v", Variant(<<Octet, None,
              Struct(<<Field("n", Octet), When(Op("==", Of("n"), Lit(1)), "p", Octet)>>)>>)),
            Field("end", Literal(<<3>>))>>

\* Widths: narrow in memory, narrow on the wire, signed and big-endian.
Widths == <<Field("narrow", Num(U8, B16)), Field("cut", Num(U16, I8)),
            Field("pair", Array(Num(I8, U8), 2))>>

\* A hand-written codec between two generated ones.
DataStored == <<Field("d", Dynamic), Field("end", Octet)>>

\* An optional's payload that is an optional, by way of an alias, and a map of
\* optionals.
Lossy == <<Field("maybe", Optional(Optional(Octet))), Field("m", Map(Octet, Optional(Octet)))>>

MCMessages ==
  [Gated |-> Gated, Shaped |-> Shaped, Listed |-> Listed,
   Mapped |-> Mapped, Tagged |-> Tagged, Widths |-> Widths, DataStored |-> DataStored]
LossyMessages == [Lossy |-> Lossy]

-----------------------------------------------------------------------------
(* Values.  Those of the widest types and longest maps are samples.        *)

RECURSIVE Inhabitants(_)

Structs(fields) ==
  FoldLeft(LAMBDA S, x : IF HasMember(x.type)
                         THEN {s @@ (x.name :> v) : s \in S, v \in Inhabitants(x.type)} ELSE S,
           {None}, fields)

Numbers(w) == {Cast(n, w) : n \in 0 .. (Capacity(w) - 1)}

\* Values of a data store, one inside the other up to a depth.
RECURSIVE Dynamics(_)
Dynamics(depth) ==
  {NullValue, [type |-> ScalarType, v |-> 2]} \cup
  (IF depth = 0 THEN {} ELSE
     {[type |-> ArrayType, v |-> v] : v \in UNION {[1..n -> Dynamics(depth - 1)] : n \in 0..MaxLen}} \cup
     {[type |-> ObjectType, v |-> v] : v \in UNION {[K -> Dynamics(depth - 1)] : K \in {{1}, {0, 3}}}})

Inhabitants(t) ==
  CASE t.kind = "number"   -> Numbers(t.memory)
    [] t.kind = "enum"     -> 0 .. (Base - 1)
    [] t.kind = "optional" -> {None} \cup {<<v>> : v \in Inhabitants(t.inner)}
    [] t.kind = "list"     -> UNION {[1..n -> Inhabitants(t.inner)] : n \in 0..MaxLen}
    [] t.kind = "array"    -> [1..t.size -> Inhabitants(t.inner)]
    [] t.kind = "map"      -> UNION {[K -> Inhabitants(t.inner)] : K \in {{}, {0}, {1, 3}}}
    [] t.kind = "variant"  -> UNION {IF t.cases[c] = None THEN {<<c, None>>}
                                     ELSE {<<c, v>> : v \in Inhabitants(t.cases[c])} : c \in DOMAIN t.cases}
    [] t.kind = "struct"   -> Structs(t.fields)
    [] t.kind = "dynamic"  -> Dynamics(1) \cup
         {[type |-> ObjectType, v |-> 1 :> d @@ 3 :> NullValue] : d \in Dynamics(1)}

Unnamed(m, s) ==
  {i \in DOMAIN m : m[i].type.kind = "enum" /\ s[m[i].name] \notin Named(m[i].type)}

Renamed(m, s) ==
  [n \in DOMAIN s |-> IF \E i \in Unnamed(m, s) : m[i].name = n
                      THEN CHOOSE v \in Named(TypeOf(m, n)) : TRUE ELSE s[n]]

\* Structs whose only fault, if any, is an enumerator without a name.
Near(m) == {s \in Structs(m) : Carried(m, Renamed(m, s))}

\* Maps without an absent value, which the wire cannot carry.
Dense(S) == {s \in S : \A k \in DOMAIN s["m"] : s["m"][k] # None}

MCValues ==
  [Gated |-> Near(Gated), Shaped |-> Near(Shaped), Listed |-> Near(Listed),
   Mapped |-> Dense(Near(Mapped)), Tagged |-> Near(Tagged), Widths |-> Near(Widths),
   DataStored |-> Near(DataStored)]
LossyValues == [Lossy |-> {[maybe |-> <<<<1>>>>, m |-> (2 :> None)]}]

\* No number narrower in memory than on the wire, no name, optional, map or
\* signed prefix, one value per literal.
RECURSIVE HasOneSpelling(_)
HasOneSpelling(t) ==
  CASE t.kind = "number"   -> t.memory = t.wire
    [] t.kind = "literal"  -> Len(t.values) = 1
    [] t.kind = "list"     -> ~ t.prefix.signed /\ HasOneSpelling(t.inner)
    [] t.kind = "array"    -> HasOneSpelling(t.inner)
    [] t.kind = "variant"  -> \A c \in DOMAIN t.cases : t.cases[c] # None => HasOneSpelling(t.cases[c])
    [] t.kind = "struct"   -> \A i \in DOMAIN t.fields : HasOneSpelling(t.fields[i].type)
    [] OTHER               -> FALSE

\* The constant operators of module Message.
MCStored(t)        == HasMember(t)
MCInitial(t)       == Default(t)
MCLets(e, s)       == Eval(e, s)
MCCarries(t, v, s) == Fits(t, v, s)
MCCanonical(t)     == HasOneSpelling(t)
MCPut(t, v)        == Write(t, v)
MCTake(t, r, f, s) == Read(t, r, f, s)

MCOctets    == Byte
MCBehind    == {<<>>, <<1, 0>>}
\* All short frames, and objects of two pairs, whose keys may be one.
MCForeign   ==
  UNION {[1..n -> MCOctets] : n \in 0..MaxFrame} \cup
  {<<ObjectType, 0, 2, j, ScalarType, 0, m, k, ScalarType, 0, n, 3>> : j, k, m, n \in 1..2}

-----------------------------------------------------------------------------
\* The codecs of compiler/cpp/field.py keep, for the field at hand of every
\* reader, what the proofs about struct serializers ask of them: of what the
\* writer put down the reader makes the same value, of part of it none, of any
\* bytes only a value that could have been written, and neither guard nor count
\* depends on a field to come.
FieldsKeepTheirWord ==
  phase = "read" /\ at <= Len(Fields) =>
    /\ Answers(Fields, at, out, frame, pos)
    /\ fate # "foreign" =>
         /\ Mirrors(Fields, at, value, out, frame, pos)
         /\ Agree(Fields, at, value, out) => Present(Fields, at, value) = Present(Fields, at, out)
         /\ at > 1 /\ Agree(Fields, at, value, out) =>
              CarriedAt(Fields, at - 1, value) = CarriedAt(Fields, at - 1, out)

\* Whatever bytes a reader accepts, it makes of them a struct that, written
\* again and read again, is the same struct.
AcceptedIsStable ==
  phase = "done" /\ status = "ok" =>
    /\ AcceptedIsCarried
    /\ ReadStruct(Fields, [status |-> "ok", pos |-> 0, value |-> None], WriteStruct(Fields, out)) =
         [status |-> "ok", pos |-> Len(WriteStruct(Fields, out)), value |-> out]

\* A struct whose only fault is an enumerator without a name is written in
\* step and refused at that name ("the empty name keeps the stream aligned and
\* no reader accepts it", compiler/cpp/enum.py).
UnnamedIsRefused ==
  phase = "done" /\ fate = "whole" /\ Unnamed(Fields, value) # {} /\ Carried(Fields, Renamed(Fields, value)) =>
    status = "illegal_byte_sequence" /\ at \in Unnamed(Fields, value) /\ pos = ends[at]
=============================================================================
