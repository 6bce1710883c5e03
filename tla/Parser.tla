------------------------------- MODULE Parser -------------------------------
(***************************************************************************)
(* compiler/parser.py: the classes of a loaded schema become enums and     *)
(* structs.  A name declared again over adjacent version ranges is one     *)
(* type, whose members and fields each carry the range of the declaration  *)
(* they stand in; a class nested in such a type takes its owner's ranges;  *)
(* names are looked up scope by scope in a table the importer fills first. *)
(* The last part translates what the pool makes of a parsed type at a      *)
(* version (descriptor_pool.py, _snapshot_view).                           *)
(*                                                                         *)
(* A place is <<module, group>>, a key the name a declaration is found by: *)
(* its flavour and its path.  (A definition named X_... is X with a        *)
(* plausible mistake in it.)                                               *)
(***************************************************************************)
EXTENDS Declarations, FiniteSets

CONSTANTS
  Sources,   (* the schemas: each a sequence of modules                    *)
  Versions   (* the protocol versions at which the properties look         *)

(* A schema is parsed as [modules, table], a source and its symbol table.  *)
Places(s) == UNION {{<<m, g>> : g \in 1 .. Len(s.modules[m].groups)} : m \in 1 .. Len(s.modules)}
GroupAt(s, p) == s.modules[p[1]].groups[p[2]]
IsNested(s, p) == Len(GroupAt(s, p).path) > 1

Least(S)    == CHOOSE x \in S : \A y \in S : x <= y
Greatest(S) == CHOOSE x \in S : \A y \in S : y <= x

Covers(x, v) == x.since <= v /\ v < x.until

-----------------------------------------------------------------------------
(* Names.                                                                  *)

Keyed(path, flavour) == <<flavour>> \o path
KeyOf(s, p) == Keyed(GroupAt(s, p).path, GroupAt(s, p).flavour)
NoKey == <<>>

\* Importer._classify, register: where each name is declared.
Registry(s) ==
  LET keyed == {<<KeyOf(s, p), p>> : p \in Places(s)}
  IN  [k \in {kp[1] : kp \in keyed} |-> {kp[2] : kp \in {x \in keyed : x[1] = k}}]
Loaded(modules) == [modules |-> modules, table |-> Registry([modules |-> modules])]

\* Of two modules that declare a name the one loaded last is found.
PlaceOf(s, k) == CHOOSE p \in s.table[k] : p[1] = Greatest({q[1] : q \in s.table[k]})
IsEnumKey(s, k) == k # NoKey /\ GroupAt(s, PlaceOf(s, k)).kind = "enum"

\* The scope of the reference, then each enclosing one, then the module's;
\* only there the flavour is the reference's to choose.
Candidate(path, scope, flavour, cut) ==
  IF cut = 0 THEN Keyed(path, flavour) ELSE SubSeq(scope, 1, cut + 1) \o path
Scopes(s, path, scope, flavour) ==
  {c \in 0 .. Len(scope) - 1 : Candidate(path, scope, flavour, c) \in DOMAIN s.table}
Lookup_ModuleFirst(s, path, scope, flavour) ==
  IF Scopes(s, path, scope, flavour) = {} THEN NoKey
  ELSE Candidate(path, scope, flavour, Least(Scopes(s, path, scope, flavour)))
Lookup(s, path, scope, flavour) ==
  IF Scopes(s, path, scope, flavour) = {} THEN NoKey
  ELSE Candidate(path, scope, flavour, Greatest(Scopes(s, path, scope, flavour)))

OtherFlavour(flavour) == IF flavour = "cereal" THEN "legacy" ELSE "cereal"

-----------------------------------------------------------------------------
(* Ranges.                                                                 *)

Later(a, b)   == IF a < b THEN b ELSE a
Earlier(a, b) == IF a < b THEN a ELSE b

Range(x) == [since |-> x.since, until |-> x.until]
Tighten_OwnWins(x, range) ==
  [since |-> IF x.since = 0 THEN range.since ELSE x.since,
   until |-> IF x.until = Open THEN range.until ELSE x.until]
Tighten(x, range) ==
  [since |-> Later(x.since, range.since), until |-> Earlier(x.until, range.until)]

\* The group that p is nested in.
OwnerOf(s, p) ==
  CHOOSE q \in s.table[Keyed(Front(GroupAt(s, p).path), GroupAt(s, p).flavour)] : q[1] = p[1]

\* The bodies of p disagree in nothing but where they stand.
Placeless(body) == [body EXCEPT !.in = 0]
Alike(bodies) == \A k \in DOMAIN bodies : Placeless(bodies[k]) = Placeless(bodies[1])

\* The bodies of p, less those in a repeat of an owner that was collapsed; and
\* what is left when its own repeats are.
OwnerCollapses(s, p) ==
  IsNested(s, p) /\ IsNested(s, OwnerOf(s, p)) /\ Alike(GroupAt(s, OwnerOf(s, p)).bodies)
Written(s, p) ==
  SelectSeq(GroupAt(s, p).bodies, LAMBDA b : OwnerCollapses(s, p) => b.in = 1)
Collapses(s, p) == IsNested(s, p) /\ Alike(Written(s, p))
Bodies(s, p) == IF Collapses(s, p) THEN <<Written(s, p)[1]>> ELSE Written(s, p)

\* _decl_range: a nested body without a range of its own has its owner's.
Inherited(s, p, body) ==
  IF body.since = 0 /\ body.until = Open
  THEN Range(GroupAt(s, OwnerOf(s, p)).bodies[body.in]) ELSE Range(body)

Spans(s, p) ==
  [k \in DOMAIN Bodies(s, p) |->
     IF IsNested(s, p) /\ ~Collapses(s, p)
     THEN Inherited(s, p, Bodies(s, p)[k]) ELSE Range(Bodies(s, p)[k])]

-----------------------------------------------------------------------------
(* One body.                                                               *)

\* The sibling a member is written against: the last of its name above it.
SiblingOf(items, i) ==
  CHOOSE j \in 1 .. (i - 1) :
    /\ items[j].name = items[i].of
    /\ \A h \in (j + 1) .. (i - 1) : items[h].name # items[i].of

\* _enum_number, from the first member of a body down: the number of each
\* item's first member.
NumbersOf(items) ==
  LET n[i \in DOMAIN items] ==
        IF items[i].how = "number" THEN items[i].number
        ELSE IF items[i].how = "sibling" THEN n[SiblingOf(items, i)] + items[i].number
        ELSE IF i = 1 THEN 0 ELSE n[i - 1] + items[i - 1].count
  IN  n

Number(s, p, k, i) ==
  IF GroupAt(s, p).kind = "enum" THEN NumbersOf(Bodies(s, p)[k].items)[i] ELSE 0

\* What body k of p adds to the type: its items, numbered and tightened.
Part(k, i, number, range) ==
  [body |-> k, item |-> i, number |-> number, since |-> range.since, until |-> range.until]
PartsOver(s, p, k, range) ==
  [i \in DOMAIN Bodies(s, p)[k].items |->
     Part(k, i, Number(s, p, k, i), Tighten(Bodies(s, p)[k].items[i], range))]
PartsOf_Last(s, p, k) == PartsOver(s, p, k, Last(Spans(s, p)))
PartsOf(s, p, k)      == PartsOver(s, p, k, Spans(s, p)[k])

\* All of p, as the importer parses a module's enums up front and _nested a
\* class's own.
AllParts(s, p) ==
  LET to[k \in 0 .. Len(Bodies(s, p))] == IF k = 0 THEN <<>> ELSE to[k - 1] \o PartsOf(s, p, k)
  IN  to[Len(Bodies(s, p))]

ItemOf(s, p, part) == Bodies(s, p)[part.body].items[part.item]

ItemsOf(s, p, parts) == [i \in DOMAIN parts |-> ItemOf(s, p, parts[i])]

LatestOf(parts) == {parts[i].number : i \in DOMAIN parts \cap {Len(parts)}}

\* The last part of enum p that has the name: the table keeps one.
Registered(s, p, name) ==
  LatestOf(SelectSeq(AllParts(s, p), LAMBDA x : ItemOf(s, p, x).name = name))

\* _enum_underlying: the first declaration's.
FirstBase(s, p) == Bodies(s, p)[1].base

-----------------------------------------------------------------------------
(* The parser is given one module or more, one class or more in each; what *)
(* declarations_of and nested_declarations group by name is never empty,   *)
(* since= and until= are integers, and so are the numbers of members.      *)
IsSequence(x) == x \in Seq(Elements(x))
IsRange(x)    == x.since \in 0 .. Open /\ x.until \in 0 .. Open
IsMember(x)   == x.how \in {"number", "sibling", "auto"} /\ x.number \in Int /\ x.count \in Nat

IsSchema(s) ==
  /\ Len(s.modules) \in Nat \ {0}
  /\ \A m \in 1 .. Len(s.modules) : Len(s.modules[m].groups) \in Nat \ {0}
  /\ \A p \in Places(s) :
       /\ IsSequence(Bodies(s, p)) /\ Bodies(s, p) # <<>>
       /\ \A k \in DOMAIN Bodies(s, p) :
            /\ IsRange(Spans(s, p)[k])
            /\ IsSequence(Bodies(s, p)[k].items)
            /\ \A i \in DOMAIN Bodies(s, p)[k].items :
                 /\ IsRange(Bodies(s, p)[k].items[i])
                 /\ GroupAt(s, p).kind = "enum" => IsMember(Bodies(s, p)[k].items[i])

ASSUME OpenAssumption     == Open \in Nat
ASSUME VersionsAssumption == Versions \subseteq Nat
ASSUME SourcesAssumption  == \A modules \in Sources : IsSchema(Loaded(modules))

-----------------------------------------------------------------------------
(* What a body may be rejected for.                                        *)

Bases == {"bool", "int8", "uint8", "int16", "uint16", "int", "uint32", "int64", "uint64"}

\* A member is defined against earlier ones only.
MembersParse(items) ==
  \A i \in DOMAIN items : items[i].how = "sibling" =>
    \E j \in 1 .. (i - 1) : items[j].name = items[i].of

\* A lambda reads fields above it, and an enum it names exists; whether the
\* member does is not looked at.
LambdaParses_AnyField(s, scope, items, i) ==
  /\ items[i].reads \subseteq {x.name : x \in Elements(items)}
  /\ \A x \in items[i].names : IsEnumKey(s, Lookup(s, x[1], scope, "cereal"))
LambdaParses(s, scope, items, i) ==
  /\ items[i].reads \subseteq {items[j].name : j \in 1 .. (i - 1)}
  /\ \A x \in items[i].names : IsEnumKey(s, Lookup(s, x[1], scope, "cereal"))

\* _enum_member: a member that is there, and for a width not zero or less.
MemberKey(s, scope, x) == Lookup(s, x[1], scope, "cereal")
Constant(s, k, x) == IF IsEnumKey(s, k) THEN Registered(s, PlaceOf(s, k), x[2]) ELSE {}
ConstantsParse(s, scope, x) ==
  /\ \A c \in x.widths \cup x.literals : Constant(s, MemberKey(s, scope, c), c) # {}
  /\ \A c \in x.widths : \A n \in Constant(s, MemberKey(s, scope, c), c) : n > 0

\* _check_flavour: a name that is there only under the other flavour.
FlavourParses(s, scope, x) ==
  \A r \in x.refs :
    Lookup(s, r, scope, x.flavour) = NoKey => Lookup(s, r, scope, OtherFlavour(x.flavour)) = NoKey

FieldsParse(s, scope, items) ==
  \A i \in DOMAIN items :
    /\ LambdaParses(s, scope, items, i)
    /\ ConstantsParse(s, scope, items[i])
    /\ FlavourParses(s, scope, items[i])

BodyParses(s, p, body) ==
  IF GroupAt(s, p).kind = "enum" THEN body.base \in Bases /\ MembersParse(body.items)
  ELSE FieldsParse(s, KeyOf(s, p), body.items)

-----------------------------------------------------------------------------
(* What the pool makes of a parsed type at a version.                      *)

\* The elements of xs at the places in S, in order.
Selected(xs, S) ==
  LET to[n \in 0 .. Len(xs)] ==
        IF n = 0 THEN <<>> ELSE IF n \in S THEN Append(to[n - 1], xs[n]) ELSE to[n - 1]
  IN  to[Len(xs)]

Seen_Since(parts, v) == Selected(parts, {i \in DOMAIN parts : parts[i].since <= v})
Seen(parts, v) == Selected(parts, {i \in DOMAIN parts : Covers(parts[i], v)})

\* _renumber: auto() again, over the members that are there.
Renumbered_Parsed(s, p, seen) == [i \in DOMAIN seen |-> seen[i].number]
Renumbered(s, p, seen) ==
  LET n[i \in DOMAIN seen] ==
        IF ItemOf(s, p, seen[i]).how # "auto" THEN seen[i].number
        ELSE IF i = 1 THEN 0 ELSE n[i - 1] + ItemOf(s, p, seen[i - 1]).count
  IN  n

NumberedAs(s, p, seen, numbers) ==
  [i \in DOMAIN seen |->
     [name |-> ItemOf(s, p, seen[i]).name, count |-> ItemOf(s, p, seen[i]).count,
      number |-> numbers[i]]]
EnumView(s, p, seen) == NumberedAs(s, p, seen, Renumbered(s, p, seen))
EnumAt(s, p, v)      == EnumView(s, p, Seen(AllParts(s, p), v))

NumberIn(view, name) == {view[i].number : i \in {j \in DOMAIN view : view[j].name = name}}

\* Enum.underlying_at: the first declaration in force, or else the last.
BaseAt_First(s, p, v) == FirstBase(s, p)
BaseAt(s, p, v) ==
  Bodies(s, p)[Least({k \in DOMAIN Spans(s, p) :
                        Covers(Spans(s, p)[k], v) \/ k = Len(Spans(s, p))})].base

\* _present_at: an enum has its declarations' range, a struct its own decorators'.
PresentAt(s, p, v) ==
  IF GroupAt(s, p).kind = "enum" THEN Spans(s, p)[1].since <= v /\ v < Last(Spans(s, p)).until
  ELSE Bodies(s, p)[1].since <= v /\ v < Last(Bodies(s, p)).until

\* The maps a struct's fields are re-bound with, module_members and
\* module_underlyings with the struct's own enums put over them: the enum they
\* know by a name, which is a module-scope key or the last word of a nested one.
KnownAs(k)          == IF Len(k) = 2 THEN k ELSE <<"cereal", Last(k)>>
OwnName(s, p, name) == KeyOf(s, p) \o Tail(name)
InModules(s, m) == {m} \cup {n \in 1 .. Len(s.modules) : s.modules[n].name \in s.modules[m].imports}
OwnKnows(s, k, v) == k \in DOMAIN s.table /\ IsEnumKey(s, k) /\ PresentAt(s, PlaceOf(s, k), v)
ModuleKnows(s, m, k) == k \in DOMAIN s.table /\ IsEnumKey(s, k) /\ PlaceOf(s, k)[1] \in InModules(s, m)

Knows_OuterFirst(s, p, name, v) ==
  CASE ModuleKnows(s, p[1], name)            -> name
    [] OwnKnows(s, OwnName(s, p, name), v)
         /\ ~ModuleKnows(s, p[1], name)      -> OwnName(s, p, name)
    [] OTHER                                 -> NoKey
Knows(s, p, name, v) ==
  IF OwnKnows(s, OwnName(s, p, name), v) THEN OwnName(s, p, name)
  ELSE IF ModuleKnows(s, p[1], name) THEN name ELSE NoKey

\* _rebind, a width or a constant spelled as member x of enum k: its number in
\* the view of the enum, or what was parsed.
ViewNumber(s, e, name, v) == IF e = NoKey THEN {} ELSE NumberIn(EnumAt(s, PlaceOf(s, e), v), name)
BoundOr(bound, otherwise) == IF bound = {} THEN otherwise ELSE bound
BoundNumber(s, p, k, x, v) ==
  BoundOr(ViewNumber(s, Knows(s, p, KnownAs(k), v), x[2], v), Registered(s, PlaceOf(s, k), x[2]))

\* _rebind, an enum without a field(type=): the underlying type it is encoded by.
BaseOr(s, e, base, v) == IF e = NoKey THEN base ELSE BaseAt(s, PlaceOf(s, e), v)
BoundBase(s, p, k, v) ==
  BaseOr(s, Knows(s, p, KnownAs(k), v), FirstBase(s, PlaceOf(s, k)), v)

\* The enums a field is encoded by without saying how.
Encoding(s, p, x) ==
  IF x.typed THEN {}
  ELSE {k \in {Lookup(s, r, KeyOf(s, p), x.flavour) : r \in x.refs} : IsEnumKey(s, k)}

\* The enums whose underlying types its Literal[...] is as wide as; _rebind looks
\* for another number in them, never for another width.
Pinned(s, p, x) == IF x.typed THEN {} ELSE {MemberKey(s, KeyOf(s, p), c) : c \in x.literals}

FieldView(s, p, x, v) ==
  [numbers  |-> [c \in x.widths \cup x.literals |-> BoundNumber(s, p, MemberKey(s, KeyOf(s, p), c), c, v)],
   encoding |-> [k \in Encoding(s, p, x) |-> BoundBase(s, p, k, v)],
   pinned   |-> [k \in Pinned(s, p, x) |-> FirstBase(s, PlaceOf(s, k))]]

StructView(s, p, seen, v) ==
  [i \in DOMAIN seen |->
     [item |-> ItemOf(s, p, seen[i]), as |-> FieldView(s, p, ItemOf(s, p, seen[i]), v)]]

-----------------------------------------------------------------------------
(* The pass over the modules.                                              *)

VARIABLES
  schema,    (* the loaded modules and the names in them                   *)
  place,     (* the group that is being parsed                             *)
  phase,     (* what is being done with it                                 *)
  at,        (* how many of its bodies that is done for                    *)
  parsed     (* its members or fields so far                               *)

vars == <<schema, place, phase, at, parsed>>

Init ==
  /\ schema \in {Loaded(modules) : modules \in Sources}
  /\ place = <<1, 1>> /\ phase = "group" /\ at = 0 /\ parsed = <<>>

\* enum() or struct() is called with all bodies of a name: a nested one says
\* nothing of its flavour, and a redeclared one has one packet id.
GroupOpens(s, p) ==
  /\ ~GroupAt(s, p).marked
  /\ \A k \in DOMAIN Bodies(s, p) : Bodies(s, p)[k].id = Bodies(s, p)[1].id

Begin ==
  /\ phase = "group" /\ GroupOpens(schema, place)
  /\ phase' = "ranges" /\ at' = 1
  /\ UNCHANGED <<schema, place, parsed>>

\* _check_redeclaration: each body but the last ends, and where the next begins.
Meets_Overlap(a, b) == a.until # Open /\ b.since <= a.until
Meets(a, b) == a.until # Open /\ a.until = b.since

NextRange ==
  /\ phase = "ranges" /\ at < Len(Bodies(schema, place))
  /\ Meets(Spans(schema, place)[at], Spans(schema, place)[at + 1])
  /\ at' = at + 1
  /\ UNCHANGED <<schema, place, phase, parsed>>

RangesTile ==
  /\ phase = "ranges" /\ at = Len(Bodies(schema, place))
  /\ phase' = "bodies" /\ at' = 0
  /\ UNCHANGED <<schema, place, parsed>>

ParseBody ==
  /\ phase = "bodies" /\ at < Len(Bodies(schema, place))
  /\ BodyParses(schema, place, Bodies(schema, place)[at + 1])
  /\ parsed' = parsed \o PartsOf(schema, place, at + 1)
  /\ at' = at + 1
  /\ UNCHANGED <<schema, place, phase>>

\* parse_file goes on to the next name, or the next module.
IsParsed == phase = "bodies" /\ at = Len(Bodies(schema, place))
GoTo_Carries(p) ==
  /\ IsParsed
  /\ place' = p /\ phase' = "group" /\ at' = 0
  /\ UNCHANGED <<schema, parsed>>
GoTo(p) ==
  /\ IsParsed
  /\ place' = p /\ phase' = "group" /\ at' = 0 /\ parsed' = <<>>
  /\ UNCHANGED schema

NextGroup ==
  /\ place[2] < Len(schema.modules[place[1]].groups)
  /\ GoTo(<<place[1], place[2] + 1>>)
NextModule ==
  /\ place[2] = Len(schema.modules[place[1]].groups) /\ place[1] < Len(schema.modules)
  /\ GoTo(<<place[1] + 1, 1>>)
Finish ==
  /\ IsParsed /\ place[2] = Len(schema.modules[place[1]].groups) /\ place[1] = Len(schema.modules)
  /\ phase' = "done"
  /\ UNCHANGED <<schema, place, at, parsed>>

\* A CompilerError, which ends the run.
RejectGroup  == phase = "group" /\ ~GroupOpens(schema, place)
RejectRanges ==
  /\ phase = "ranges" /\ at < Len(Bodies(schema, place))
  /\ ~Meets(Spans(schema, place)[at], Spans(schema, place)[at + 1])
RejectBody ==
  /\ phase = "bodies" /\ at < Len(Bodies(schema, place))
  /\ ~BodyParses(schema, place, Bodies(schema, place)[at + 1])
Reject ==
  /\ RejectGroup \/ RejectRanges \/ RejectBody
  /\ phase' = "rejected"
  /\ UNCHANGED <<schema, place, at, parsed>>

Stopped == phase \in {"done", "rejected"} /\ UNCHANGED vars

Next ==
  \/ Begin \/ NextRange \/ RangesTile \/ ParseBody
  \/ NextGroup \/ NextModule \/ Finish
  \/ Reject \/ Stopped

Spec == Init /\ [][Next]_vars

-----------------------------------------------------------------------------
\* Types of the variables.
TypeOK ==
  /\ place \in Places(schema)
  /\ phase \in {"group", "ranges", "bodies", "rejected", "done"}
  /\ at \in 0 .. Len(Bodies(schema, place))
  /\ \A i \in DOMAIN parsed :
       parsed[i].body \in 1 .. Len(Bodies(schema, place)) /\ parsed[i].since \in 0 .. Open

(* What the schema says, body by body and without the parser.              *)

\* The group that holds the first d words of p's path.
Within(s, p, d) ==
  CHOOSE q \in s.table[Keyed(SubSeq(GroupAt(s, p).path, 1, d), GroupAt(s, p).flavour)] : q[1] = p[1]

\* Body k of p is for version v: so say it and every body it stands in.
ForVersion(s, p, k, v) ==
  LET depth == Len(GroupAt(s, p).path)
      in[d \in 1 .. depth] ==
        IF d = depth THEN GroupAt(s, p).bodies[k] ELSE GroupAt(s, Within(s, p, d)).bodies[in[d + 1].in]
  IN  \A d \in 1 .. depth : Covers(in[d], v)

BodiesFor(s, p, v) ==
  {Placeless(GroupAt(s, p).bodies[k]) : k \in {j \in DOMAIN GroupAt(s, p).bodies : ForVersion(s, p, j, v)}}

ItemsFor(body, v) == Selected(body.items, {i \in DOMAIN body.items : Covers(body.items[i], v)})

\* The numbers a body gives, as if it stood alone.
Alone(items) ==
  [i \in DOMAIN items |-> [name |-> items[i].name, count |-> items[i].count, number |-> NumbersOf(items)[i]]]
MembersFor(body, v) == Alone(ItemsFor(body, v))

NumbersFor(s, p, x, v) ==
  UNION {NumberIn(MembersFor(b, v), x[2]) :
           b \in BodiesFor(s, PlaceOf(s, MemberKey(s, KeyOf(s, p), x)), v)}

BaseFor(s, p, v) == (CHOOSE b \in BodiesFor(s, p, v) : TRUE).base

FieldFor(s, p, x, v) ==
  [numbers  |-> [c \in x.widths \cup x.literals |-> NumbersFor(s, p, c, v)],
   encoding |-> [k \in Encoding(s, p, x) |-> BaseFor(s, PlaceOf(s, k), v)],
   pinned   |-> [k \in Pinned(s, p, x) |-> BaseFor(s, PlaceOf(s, k), v)]]

-----------------------------------------------------------------------------
\* Each class statement of the schema ends after it begins.
Ordered(s, p) == \A k \in DOMAIN Spans(s, p) : Spans(s, p)[k].since < Spans(s, p)[k].until

\* The docstring of _check_redeclaration: "Redeclarations must tile one range
\* [...] Anything else silently drops or double-counts a shape at some
\* snapshot".  In what the parser accepts, every version in the range of a
\* name is in the range of one of its bodies; the members or fields in force
\* at a version all stand in one and the same body; and they are what that
\* body has in force there, each once and in its order.
OneBodyInForce ==
  phase = "bodies" /\ Ordered(schema, place) =>
    \A v \in Versions :
      /\ Spans(schema, place)[1].since <= v /\ v < Last(Spans(schema, place)).until =>
           \E k \in DOMAIN Spans(schema, place) : Covers(Spans(schema, place)[k], v)
      /\ \A i, j \in DOMAIN parsed :
           Covers(parsed[i], v) /\ Covers(parsed[j], v) => parsed[i].body = parsed[j].body
      /\ \A k \in 1 .. at : Covers(Spans(schema, place)[k], v) =>
           ItemsOf(schema, place, Seen(parsed, v)) = ItemsFor(Bodies(schema, place)[k], v)

\* The members of an enum that are there at a version, as the pool numbers them,
\* are those of the class statement for that version, numbered as if it stood
\* alone.
SameMembers(view, meant, unless) ==
  /\ Len(view) = Len(meant)
  /\ \A i \in DOMAIN view :
       /\ view[i].name = meant[i].name /\ view[i].count = meant[i].count
       /\ i \in unless \/ view[i].number = meant[i].number
Derived(items) == {i \in DOMAIN items : items[i].how = "sibling"}

\* The fields of a struct are those of the class statement for the version, in
\* its order, each with the widths and constants its enums have and the encoding
\* their underlying types call for.
FieldsFor(s, p, items, v) ==
  [i \in DOMAIN items |-> [item |-> items[i], as |-> FieldFor(s, p, items[i], v)]]

MeantBy(s, p, parts, b, v, unless) ==
  IF GroupAt(s, p).kind = "enum"
  THEN SameMembers(EnumView(s, p, Seen(parts, v)), MembersFor(b, v), unless)
  ELSE StructView(s, p, Seen(parts, v), v) = FieldsFor(s, p, ItemsFor(b, v), v)

\* What the pool is handed and what it makes of it (_snapshot_view) agree with
\* the schema at every version, through redeclared names, classes nested in
\* them that were collapsed or took their owner's ranges, auto() members that
\* come and go, and enums whose numbers or underlying types move; but for the
\* numbers of members written against a sibling.
ViewsMeant ==
  IsParsed =>
    \A v \in Versions : \A b \in BodiesFor(schema, place, v) :
      MeantBy(schema, place, parsed, b, v, Derived(ItemsFor(b, v)))

\* And so for every class of a schema the parser accepts, no member excepted.
\* _module_members promises it of every member ("every module-scope enum's member
\* values at `snapshot`"), _check_redeclaration of redeclared names, _snapshot_view
\* of a width named by a nested enum ("it is this snapshot's numbering it has to
\* follow"), _literal_type of a constant ("the constant and the member it stands in
\* for encode alike").
ViewsExact ==
  phase = "done" =>
    \A p \in Places(schema), v \in Versions : \A b \in BodiesFor(schema, p, v) :
      MeantBy(schema, p, AllParts(schema, p), b, v, {})

-----------------------------------------------------------------------------
\* k names one declaration, which module m has or imports and which is there
\* at v.
NamesOne(s, m, k, v) ==
  /\ k # NoKey /\ Cardinality(s.table[k]) = 1
  /\ PlaceOf(s, k)[1] \in InModules(s, m)
  /\ BodiesFor(s, PlaceOf(s, k), v) # {}

\* r, spelled by field x of p, is such a name, or the one type alias over such.
Aliases(s, r) ==
  UNION {{<<m, a>> : a \in {x \in s.modules[m].aliases : <<x.name>> = r}} : m \in 1 .. Len(s.modules)}
RefInForce(s, p, k, r, v) ==
  \/ NamesOne(s, p[1], k, v)
  \/ k = NoKey /\ \E ma \in Aliases(s, r) :
       /\ Aliases(s, r) = {ma} /\ ma[1] \in InModules(s, p[1])
       /\ \A t \in ma[2].refs : NamesOne(s, ma[1], Lookup(s, t, <<"cereal">>, "cereal"), v)

MemberInForce(s, p, x, v) == NumbersFor(s, p, x, v) # {}

\* Where a field is in force so is all it names: the types of its annotation,
\* each one declaration that the module has or imports; the enumerators it is
\* gated, sized or pinned by; and, above it in the same body, the fields its
\* lambda reads.  The parser asks for none of this but that the names exist.
FieldInForce(s, p, items, i, v) ==
  /\ \A r \in items[i].refs : RefInForce(s, p, Lookup(s, r, KeyOf(s, p), items[i].flavour), r, v)
  /\ \A x \in items[i].names \cup items[i].widths \cup items[i].literals : MemberInForce(s, p, x, v)
  /\ items[i].reads \subseteq {items[j].name : j \in 1 .. (i - 1)}
NamesInForce ==
  IsParsed /\ GroupAt(schema, place).kind = "struct" =>
    \A v \in Versions : \A b \in BodiesFor(schema, place, v) :
      \A i \in DOMAIN ItemsFor(b, v) : FieldInForce(schema, place, ItemsFor(b, v), i, v)
=============================================================================
