------------------------------ MODULE MCParser ------------------------------
(***************************************************************************)
(* The schema of the repository, protocol/*.py, and families of small ones *)
(* in which ranges, numbers and names come in every way that matters.      *)
(***************************************************************************)
EXTENDS Parser, ProtocolActors, ProtocolItems, ProtocolWorld, ProtocolGame, ProtocolSession

\* protocol/*.py by name.
Protocol ==
  << PackageModule, AbilityModule, ActorModule, AttributeModule, BiomeModule, BlockModule,
     BossModule, CameraModule, ChunkModule, CommandModule, CommonModule, CraftingModule,
     DataStoreModule, DiagnosticsModule, DimensionModule, EasModule, EduModule, EffectModule,
     EnchantingModule, GameModule, GraphicsModule, InputModule, InventoryModule, ItemModule,
     ItemStackModule, LevelModule, MapModule, MolangModule, MovementModule, NbtModule,
     NetworkModule, PackModule, PlayerModule, PresenceModule, ScoreboardModule, ScriptModule,
     SkinModule, SoundModule, StoreModule, StructureModule, TelemetryModule, TextModule,
     TransactionModule, UiModule >>

\* Every since= and until= of it, the protocols before and the one after the last.
MCVersions ==
  {0, 748, 766, 776, 786, 800, 818, 819, 827, 844, 859, 898, 924, 944, 975, 1001, 2168, 2193,
   2225, 2226}

-----------------------------------------------------------------------------
Points == {0, 766, 776, Open}
Alone1(groups) == << Module("m", {}, {}, groups) >>
Plain == Field({})
Base(base, bodies) == [k \in DOMAIN bodies |-> Based(base, bodies[k])]

\* A name declared twice over any ranges, with a gate of its own inside.
RangeSources ==
  {Alone1(<<Struct("A", <<Over(a, b, <<Named("x", Plain), Gated(g[1], g[2], Plain)>>),
                         Over(c, d, <<Named("y", Plain)>>)>>)>>) :
     a \in Points, b \in Points, c \in Points, d \in Points, g \in {<<766, Open>>, <<748, 800>>}}

\* Three times, in order or with a gap, an overlap or two packet ids.
ThreeSources ==
  {Alone1(<<Struct("A", <<Over(0, 766, <<Named("x", Plain)>>), Over(b, 776, <<Named("y", Plain)>>),
                         [Over(776, Open, <<Named("x", Plain), Plain>>) EXCEPT !.id = id]>>)>>) :
     b \in {748, 766, 776}, id \in {0, 7}}

\* The owner of a nested enum, and of a nested struct with an enum in it, is
\* redeclared; the nested ones repeat or differ, and may have ranges of their own.
NestedSources ==
  {Alone1(<< EnumIn(<<"O">>, "K", <<In(1, Body(<<Is(0, 2), Named("N", Autos(1))>>)),
                                   In(2, Over(k[1], k[2], <<Is(k[3], 2), Named("N", Autos(1))>>))>>),
            EnumIn(<<"O", "P">>, "L", <<In(1, Body(<<Named("A", Is(0, 1))>>)),
                                        In(2, Body(<<Named("A", Is(0, 1))>>))>>),
            StructIn(<<"O">>, "P", <<In(1, Body(<<Field({"L"})>>)),
                                     In(2, Text(t, Body(<<Field({"L"})>>)))>>),
            Struct("O", <<Over(0, 776, <<Width(Members("K", {"N"}), Plain)>>),
                         Over(776, Open, <<Field({"P"}), Width(Members("K", {"N"}), Plain)>>)>>) >>) :
     k \in {<<0, Open, 0>>, <<0, Open, 4>>, <<776, Open, 0>>, <<786, Open, 4>>}, t \in {0, 1}}

\* The members of an enum come and go under another module's widths and constants.
Gates == {<<0, Open>>, <<766, Open>>, <<0, 766>>}
NumberSources ==
  {<< Module("lib", {}, {},
        << Enum("E", <<Over(0, 786, <<Gated(g[1], g[2], a), Named("B", b), Named("N", Autos(1))>>),
                       Over(786, Open, <<Named("B", Is(1, 1)), Named("N", c)>>)>>) >>),
      Module("m", {"lib"}, {[name |-> "X", refs |-> {<<"E">>}]},
        << Struct("S", Once(<<Width(Members("E", {"N"}), Plain),
                              Literal(Members("E", {"B"}), Plain), Field({"X", "E"})>>)) >>) >> :
     g \in Gates, a \in {Is(0, 1), Is(5, 2), Autos(1)}, b \in {Autos(1), Is(3, 1)},
     c \in {Autos(1), Is(9, 1)}}

\* An enum's underlying type moves under a field that is encoded by it, and under
\* one that says how it is encoded.
BaseSources ==
  {Alone1(<< Enum("E", Base(base, <<Over(0, 766, <<Named("A", Is(1, 1))>>)>>)
                      \o <<Over(766, Open, <<Named("A", Is(n, 1))>>)>>),
            Struct("S", Once(<<Field({"E"}), Typed(Field({"E"})),
                               Typed(Literal(Members("E", {"A"}), Plain))>>)) >>) :
     base \in {"uint8", "int", "uint128"}, n \in {1, 2}}

\* An enum nested in a struct and a module's of the same name.
ShadowSources ==
  {Alone1(<< Enum("E", Once(<<Is(0, 2), Named("N", Autos(1))>>)),
            EnumIn(<<"S">>, "E", <<In(1, Over(0, u, <<Since(766, Is(0, 1)), Named("N", Is(n, 1))>>))>>),
            Struct("S", Once(<<Gated(0, u, Width(Members("E", {"N"}), Plain)), Plain>>)) >>) :
     u \in {776, Open}, n \in {0, 1, 4}}

\* A lambda, a width, a reference and a member written against a sibling, each
\* as it may be and as it may not.
One(x, y) == Alone1(<< Enum("E", Once(<<Is(0, 1), Named("A", Is(0, 1)), Named("Z", Of("A", 0)),
                                        Named("N", Of("A", 3))>>)),
                       PreCereal(Struct("Old", Once(<<>>))),
                       Struct("S", Once(<<x, y>>)) >>)
NameSources ==
  {One(Named("f", Plain), When({"f"}, Members("E", {"A"}), Plain)),
   One(When({"f"}, {}, Plain), Named("f", Plain)),
   One(Named("f", Plain), When({"f"}, Members("G", {"A"}), Plain)),
   One(Width(Members("E", {"N"}), Plain), Literal(Members("E", {"A"}), Plain)),
   One(Width(Members("E", {"Z"}), Plain), Plain),
   One(Width(Members("E", {"M"}), Plain), Plain),
   One(Legacy(Field({"Old"})), Plain),
   One(Field({"Old"}), Plain),
   Alone1(<< Enum("E", Once(<<Of("A", 1), Named("A", Is(0, 1))>>)) >>),
   Alone1(<< EnumIn(<<"S">>, "E", Repeated(1, Body(<<Is(0, 1)>>))), Struct("S", Once(<<>>)) >>),
   Alone1(<< Marked(EnumIn(<<"S">>, "E", Repeated(1, Body(<<Is(0, 1)>>)))), Struct("S", Once(<<>>)) >>)}

MCSources ==
  {Protocol} \cup RangeSources \cup ThreeSources \cup NestedSources \cup NumberSources
    \cup BaseSources \cup ShadowSources \cup NameSources

\* What the parser accepts, or the pool makes of it, and no declaration means:
\* 1. the second declaration of A ends before it begins, so two are in force
\*    from 766 to 776;
BackwardsPart == << Struct("A", <<Over(0, 776, <<Named("x", Plain)>>), Over(776, 766, <<Named("y", Plain)>>),
                                  Over(766, Open, <<Named("z", Plain)>>)>>) >>
\* 2. LATEST is written against COUNT, which counts one more from 766 on;
DerivedPart == << Enum("D", Once(<<Is(0, 1), Since(766, Is(1, 1)), Named("COUNT", Autos(1)),
                                   Named("LATEST", Of("COUNT", -1))>>)) >>
\* 3. P, nested in O, is as wide as O's enum K, which has one more from 766 on;
NestedPart == << EnumIn(<<"O">>, "K", Repeated(1, Body(<<Is(0, 1), Since(766, Is(1, 1)), Named("N", Autos(1))>>))),
                 StructIn(<<"O">>, "P", Repeated(1, Body(<<Width(Members("K", {"N"}), Plain)>>))),
                 Struct("O", Once(<<Field({"P"})>>)) >>
\* 4. S holds the constant U.M, and the underlying type of U moves at 766.
PinnedPart == << Enum("U", Base("uint8", <<Over(0, 766, <<Named("M", Is(1, 1))>>)>>)
                             \o <<Over(766, Open, <<Named("M", Is(1, 1))>>)>>),
                 Struct("S", Once(<<Literal(Members("U", {"M"}), Plain)>>)) >>

ViewsSources == {Alone1(BackwardsPart \o DerivedPart \o NestedPart \o PinnedPart)}

-----------------------------------------------------------------------------
\* The enum of packet ids, where a schema has one; three of its members are no
\* packet's.
PacketEnum == <<"cereal", "MinecraftPacketIds">>
Sentinels == {"TITLE_SPECIFIC_PACKETS_START", "TITLE_SPECIFIC_PACKETS_END", "END_ID"}
NumbersAt(s, v) ==
  LET view == EnumAt(s, PlaceOf(s, PacketEnum), v)
  IN  UNION {view[i].number .. (view[i].number + view[i].count - 1) :
               i \in {j \in DOMAIN view : view[j].name \notin Sentinels}}

PacketsAt(s, v) ==
  {p \in Places(s) : GroupAt(s, p).bodies[1].id # 0 /\ PresentAt(s, p, v)}
IdOf(s, p) == GroupAt(s, p).bodies[1].id

\* The repository's schema is accepted, and at every version the packets that are
\* there have ids of their own, which are the numbers MinecraftPacketIds has at
\* that version: none is missing and none is left over.  Two declarations far
\* apart have to agree on this, @packet(id=) with its range and the enumerator
\* with its; nothing in the compiler compares them.
PacketIdsRegistered ==
  PacketEnum \in DOMAIN schema.table =>
    /\ phase # "rejected"
    /\ place = <<1, 1>> /\ phase = "group" => \A v \in Versions :
         /\ NumbersAt(schema, v) = {IdOf(schema, p) : p \in PacketsAt(schema, v)}
         /\ \A p, q \in PacketsAt(schema, v) : IdOf(schema, p) = IdOf(schema, q) => p = q
=============================================================================
