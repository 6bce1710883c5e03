-------------------------- MODULE MCDescriptorPool --------------------------
(***************************************************************************)
(* Three files and four types: an enum Kind, a struct Item that encodes a  *)
(* field by it, a struct Packet that holds an Item and a struct Extra that *)
(* lives beside Kind and holds an Item, so that its file may close an      *)
(* import cycle.  Every import graph that makes the references visible is  *)
(* explored, and several ways for each type to move.                       *)
(***************************************************************************)
EXTENDS PoolRefinement, SequencesExt

MCFiles == {"a", "b", "c"}
MCTypes == {"Kind", "Item", "Packet", "Extra"}
MCOpen  == 4

\* Files by name, the order File.imports is sorted in.
Sorted(S) == SelectSeq(<<"a", "b", "c">>, LAMBDA f : f \in S)

Part(name, shape, wire, refs, follows, since, until) ==
  [name |-> name, shape |-> shape, wire |-> wire, refs |-> refs,
   follows |-> follows, since |-> since, until |-> until]

Decl(home, kind, since, until, parts) ==
  [home |-> home, kind |-> kind, since |-> since, until |-> until, parts |-> parts]

One == Part("ONE", 0, "one", {}, {}, 0, MCOpen)

\* An enum that never moves, gains a member, is renumbered, or loses a member
\* and takes it back.
KindDecls ==
  {Decl("c", "enum", 0, MCOpen, {One} \cup extra) :
     extra \in {{},
                {Part("TWO", 1, "two", {}, {}, 2, MCOpen)},
                {Part("TWO", 1, "two", {}, {}, 0, 1), Part("TWO", 2, "two", {}, {}, 1, MCOpen)},
                {Part("TWO", 1, "two", {}, {}, 0, 1), Part("TWO", 1, "two", {}, {}, 3, MCOpen)}}}

KindField(s, u) == Part("kind", "Kind", "", {"Kind"}, {"Kind"}, s, u)
ItemField(s, u) == Part("item", "Item", "", {"Item"}, {}, s, u)
Plain(name, s, u) == Part(name, "int", "", {}, {}, s, u)

ItemDecls(home) ==
  {Decl(home, "struct", life[1], life[2], parts) :
     life  \in {<<0, MCOpen>>, <<1, 3>>},
     parts \in {{KindField(0, MCOpen)},
                {KindField(0, 2), Plain("x", 2, MCOpen)}}}

PacketDecls(items) ==
  {Decl("a", "struct", s, u, {ItemField(s, u)} \cup extra) :
     s \in {items.since}, u \in {items.until},
     extra \in {{}, {Plain("y", 0, 2)}}}

ExtraDecls(items) ==
  {Decl("c", "struct", items.since, items.until, {ItemField(items.since, items.until)}),
   Decl("c", "struct", 0, MCOpen, {Plain("z", 0, MCOpen)})}

Graphs ==
  {[f \in MCFiles |-> Sorted(g[f])] :
     g \in {h \in [MCFiles -> SUBSET MCFiles] : \A f \in MCFiles : f \notin h[f]}}

Declared ==
  UNION {{[Kind |-> k, Item |-> i, Packet |-> p, Extra |-> x] :
            k \in KindDecls, p \in PacketDecls(i), x \in ExtraDecls(i)} :
         i \in ItemDecls("b") \cup ItemDecls("c")}

\* The import graphs without a cycle, under every way for the types to move.
AcyclicGraphs ==
  {g \in Graphs : Acyclic([imports |-> g])}

AcyclicSchemas == {s \in [imports : AcyclicGraphs, decl : Declared] : WellScoped(s)}

\* Every import graph, under a few: Kind gains a member or does not, and
\* nothing else moves unless Item has a lifetime of its own.
FewDeclared ==
  {d \in Declared :
     /\ \A p \in d.Kind.parts : p.shape <= 1 /\ p.since # 3 /\ p.until = MCOpen
     /\ Cardinality(d.Item.parts) = 1 /\ Cardinality(d.Packet.parts) = 1}

AnyGraphSchemas == {s \in [imports : Graphs, decl : FewDeclared] : WellScoped(s)}

MCOutputs == {<<"a", "b", "c">>, <<"c", "b", "a">>, <<"b", "a">>}

\* Where a definition goes astray: c and b import each other and c is asked for
\* first, so Item in b is planned without Kind; a imports from b an alias over
\* Kind and types Packet's field by it; and Kind's member ONE is spelled another
\* way from 2 on.  From 3 on Kind has a second member.
Respelled ==
  Decl("c", "enum", 0, MCOpen,
    {Part("ONE", 0, "one", {}, {}, 0, 2), Part("ONE", 0, "uno", {}, {}, 2, MCOpen),
     Part("TWO", 1, "two", {}, {}, 3, MCOpen)})
ByKind(home) == Decl(home, "struct", 0, MCOpen, {KindField(0, MCOpen), Plain("x", 3, MCOpen)})
AstraySchemas ==
  {[imports |-> [a |-> <<"b">>, b |-> <<"c">>, c |-> <<"b">>],
    decl |-> [Kind |-> Respelled, Item |-> ByKind("b"), Packet |-> ByKind("a"),
              Extra |-> Decl("c", "struct", 0, MCOpen, {})]]}
AstrayOutputs == {<<"c", "b", "a">>}

-----------------------------------------------------------------------------
\* When bpc has built its outputs, what a selector hands out at a version is what
\* the declarations say of the version.  EnumType's docstring: "The pool re-derives
\* it against each snapshot's view of that enum, so a field follows an underlying
\* type that moved"; EnumValue's: "`since` / `until` bound the member to
\* `[since, until)`"; find_file_by_name's: "a file's imports are always built
\* before it, so a lookup during a build finds them".
Astray(r, t, v) ==
  \E c \in Selected(schema, r, t, v) : Defined(schema, r, t, c) # DeclaredShape(schema, t, v)
DefinitionsFollow ==
  stack = <<>> /\ outputs = <<>> =>
    \A f \in Files : IsBuilt(f) =>
      \A t \in DOMAIN built[f].views, v \in Versions : ~ Astray(built[f], t, v)
=============================================================================
