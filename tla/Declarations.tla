---------------------------- MODULE Declarations ----------------------------
(***************************************************************************)
(* The declarations of a schema as the importer hands them to the parser:  *)
(* the class statements of each module, grouped by name.  A source is a    *)
(* sequence of modules in load order,                                      *)
(*   [name, imports, aliases, groups]                                      *)
(* a group all declarations of one name,                                   *)
(*   [kind, path, flavour, marked, bodies]    path is <<Owner, ..., Name>> *)
(* and a body one class statement,                                         *)
(*   [id, since, until, base, in, text, items]                             *)
(* where in is the body of the owner a nested one is written in and text   *)
(* tells bodies apart whose items here are the same.  Classes nested in a  *)
(* class are groups of their own, before their owner, enums first, as      *)
(* _nested comes to them.                                                  *)
(*                                                                         *)
(* Of what a body holds the items keep what the numbering, the versions    *)
(* and the names decide.  Neighbours that no one names and that carry the  *)
(* same gate are one item, and fields that nothing of this is about (plain *)
(* types, no gate) are left out:                                           *)
(*   members : [name, count, how, number, of, since, until]                *)
(*   fields  : [name, refs, typed, flavour, reads, names, widths,          *)
(*              literals, since, until]                                    *)
(* refs are the declared types the annotation spells, reads the fields and *)
(* names the members a lambda mentions, widths and literals the members    *)
(* that bitset[...] and array[...], and Literal[...], mention; a type is   *)
(* spelled as a path, a member as <<path of its enum, name>>.              *)
(*                                                                         *)
(* A missing since= is 0 and a missing until= is Open.                     *)
(***************************************************************************)
EXTENDS Integers, Sequences

CONSTANT Open

Elements(s) == {s[k] : k \in 1 .. Len(s)}
Last(s)     == s[Len(s)]
Front(s)    == SubSeq(s, 1, Len(s) - 1)

-----------------------------------------------------------------------------
(* Members.                                                                *)

Member(how, number, count) ==
  [name |-> "", count |-> count, how |-> how, number |-> number, of |-> "",
   since |-> 0, until |-> Open]

\* count members with consecutive numbers; members written auto(), or value()
\* without a number; a sibling, offset.
Is(number, count) == Member("number", number, count)
Autos(count)       == Member("auto", 0, count)
Of(sibling, offset) == [Member("sibling", offset, 1) EXCEPT !.of = sibling]

(* Fields.                                                                 *)

FieldOf(refs) ==
  [name |-> "", refs |-> refs, typed |-> FALSE, flavour |-> "cereal", reads |-> {},
   names |-> {}, widths |-> {}, literals |-> {}, since |-> 0, until |-> Open]

Field(names) == FieldOf({<<n>> : n \in names})

\* Members of the enum with the path, or the name.
MembersOf(path, names) == {<<path, n>> : n \in names}
Members(enum, names)   == MembersOf(<<enum>>, names)

\* field(type=...) and field(cereal=False).
Typed(x)  == [x EXCEPT !.typed = TRUE]
Legacy(x) == [x EXCEPT !.flavour = "legacy"]

\* when= or count=, over the fields and the members the lambda reads.
When(reads, names, x) == [x EXCEPT !.reads = reads, !.names = names]
Width(members, x)     == [x EXCEPT !.widths = members]
Literal(members, x)   == [x EXCEPT !.literals = members]

(* Either.                                                                 *)
Named(name, x)          == [x EXCEPT !.name = name]
Gated(since, until, x)  == [x EXCEPT !.since = since, !.until = until]
Since(since, x)         == Gated(since, Open, x)
Until(until, x)         == Gated(0, until, x)

-----------------------------------------------------------------------------
(* Class statements and groups.                                            *)

Over(since, until, items) ==
  [id |-> 0, since |-> since, until |-> until, base |-> "int", in |-> 0,
   text |-> 0, items |-> items]
Body(items) == Over(0, Open, items)
Once(items) == <<Body(items)>>

\* The second base, the owner's body, what the items leave out.
Based(base, body) == [body EXCEPT !.base = base]
In(owner, body)   == [body EXCEPT !.in = owner]
Text(text, body)  == [body EXCEPT !.text = text]

\* A nested class repeated in the owner's first n bodies.
Repeated(n, body) == [k \in 1 .. n |-> In(k, body)]

Group(kind, path, bodies) ==
  [kind |-> kind, path |-> path, flavour |-> "cereal", marked |-> FALSE,
   bodies |-> bodies]

Enum(name, bodies)   == Group("enum", <<name>>, bodies)
Struct(name, bodies) == Group("struct", <<name>>, bodies)
\* @packet(id=...) on every body.
Packet(name, id, bodies) ==
  Struct(name, [k \in DOMAIN bodies |-> [bodies[k] EXCEPT !.id = id]])
\* A class in a class.
EnumIn(owners, name, bodies)   == Group("enum", Append(owners, name), bodies)
StructIn(owners, name, bodies) == Group("struct", Append(owners, name), bodies)
\* @type(cereal=False), and what is nested in one; and the same on a class
\* that is nested, which takes its owner's flavour.
PreCereal(group) == [group EXCEPT !.flavour = "legacy"]
Marked(group)    == [group EXCEPT !.marked = TRUE]

Module(name, imports, aliases, groups) ==
  [name |-> name, imports |-> imports, aliases |-> aliases, groups |-> groups]
=============================================================================
